---- MODULE Spec2Model ----
(***************************************************************************)
(* A model of the tile orchestration layer of openeo-geopyspark-driver:    *)
(* GeotrellisTimeSeriesImageCollection (GeotrellisImageCollection.py) and  *)
(* the process-graph classification of GeoPySparkBackendImplementation     *)
(* (backend.py).                                                           *)
(*                                                                         *)
(* The distributed tile store (geopyspark / the JVM OpenEOProcesses) is a  *)
(* black box: every operation the Python code invokes on it is appended to *)
(* a trace, in the order the code invokes it.                              *)
(***************************************************************************)
EXTENDS Integers, Sequences, FiniteSets, TLC

VARIABLES
    cube,       \* the receiver collection (self): pyramid and metadata
    visitor,    \* a reducer visitor object held by the caller
    call,       \* the inputs of the last dispatcher call
    outcome,    \* error raised by the last call and the store operations it invoked
    result,     \* the collection the last call returned: {} is Python's None
    level,      \* UDF pipeline: the input level, a set of (key, tile) pairs
    mode,       \* UDF pipeline: the operation in progress and its user code
    pending,    \* UDF pipeline: inputs (tiles or groups) not yet handed to user code
    out,        \* UDF pipeline: the output tiles produced so far
    invocations,\* UDF pipeline: one record per invocation of user code
    failure     \* UDF pipeline: the error that aborted the operation, "" if none

dispatchVars == <<cube, visitor, call, outcome, result>>
udfVars == <<level, mode, pending, out, invocations, failure>>
vars == <<cube, visitor, call, outcome, result,
          level, mode, pending, out, invocations, failure>>

-----------------------------------------------------------------------------
(* Bounds of the model *)

\* pyramids have the levels 0..z for some z in 0..MaxZoom
MaxZoom == 1

-----------------------------------------------------------------------------
(* Strings.  A name is a tuple of one-character strings, so that            *)
(* str.upper(), str.lower() and str.capitalize() are computed per character *)

LowerLetters ==
    <<"a","b","c","d","e","f","g","h","i","j","k","l","m",
      "n","o","p","q","r","s","t","u","v","w","x","y","z">>

UpperLetters ==
    <<"A","B","C","D","E","F","G","H","I","J","K","L","M",
      "N","O","P","Q","R","S","T","U","V","W","X","Y","Z">>

IsIn(seq, c) == \E i \in DOMAIN seq : seq[i] = c

IndexIn(seq, c) == CHOOSE i \in DOMAIN seq : seq[i] = c

UpperChar(c) == IF IsIn(LowerLetters, c) THEN UpperLetters[IndexIn(LowerLetters, c)] ELSE c

LowerChar(c) == IF IsIn(UpperLetters, c) THEN LowerLetters[IndexIn(UpperLetters, c)] ELSE c

upper(s) == [i \in DOMAIN s |-> UpperChar(s[i])]

lower(s) == [i \in DOMAIN s |-> LowerChar(s[i])]

capitalize(s) == [i \in DOMAIN s |-> IF i = 1 THEN UpperChar(s[i]) ELSE LowerChar(s[i])]

\* the reducer names _normalize_temporal_reducer compares with
N_MIN == <<"M","I","N">>
N_MAX == <<"M","A","X">>
N_SUM == <<"S","U","M">>
N_MEAN == <<"M","E","A","N">>
N_VARIANCE == <<"V","A","R","I","A","N","C","E">>
N_SD == <<"S","D">>
N_StandardDeviation ==
    <<"S","t","a","n","d","a","r","d","D","e","v","i","a","t","i","o","n">>
\* the normalized names reduce() compares with
N_Variance == <<"V","a","r","i","a","n","c","e">>
N_Min == <<"M","i","n">>
N_Max == <<"M","a","x">>
N_Sum == <<"S","u","m">>
N_Mean == <<"M","e","a","n">>
N_run_udf == <<"r","u","n","_","u","d","f">>

\* process ids the callers of the model use
P_min == <<"m","i","n">>
P_mAx == <<"m","A","x">>
P_median == <<"m","e","d","i","a","n">>
P_add == <<"a","d","d">>
P_divide == <<"d","i","v","i","d","e">>

ProcessIds ==
    { P_min, P_mAx, N_SUM, <<"m","e","a","n">>, N_Variance, <<"s","d">>, <<"S","d">>,
      P_median, N_StandardDeviation, P_add, P_divide }

-----------------------------------------------------------------------------
(* The data model: metadata, layers, pyramids, collections *)

\* the accessor of a dimension the metadata does not declare
NoDim == ""

SPATIAL == "SPATIAL"
SPACETIME == "SPACETIME"

\* CollectionMetadata: the declared temporal and band dimension (by name) and the
\* declared spatial dimensions, in order
Metadatas ==
    [ temporal : {NoDim, "t"},
      band : {NoDim, "bands"},
      spatial : { <<>>, <<"x">>, <<"x", "y">> } ]

has_temporal_dimension(md) == md.temporal # NoDim

has_band_dimension(md) == md.band # NoDim

dimension_names(md) ==
    { md.spatial[i] : i \in DOMAIN md.spatial }
        \cup (IF has_temporal_dimension(md) THEN {md.temporal} ELSE {})
        \cup (IF has_band_dimension(md) THEN {md.band} ELSE {})

\* CollectionMetadata.reduce_dimension: a new metadata object without the dimension
md_reduce_dimension(md, dimension) ==
    [ temporal |-> IF md.temporal = dimension THEN NoDim ELSE md.temporal,
      band |-> IF md.band = dimension THEN NoDim ELSE md.band,
      spatial |-> SelectSeq(md.spatial, LAMBDA d : d # dimension) ]

\* a TiledRasterLayer as far as the dispatcher sees it: its layer type and whether it
\* holds the source tiling, the retiled windows or the windows with the overlap removed
Layers == [ layer_type : {SPATIAL, SPACETIME}, tiling : {"source"} ]

\* object identity of a collection: the receiver of a call, or an object built by it
SelfId == "self"
NewId == "new"

\* a Pyramid: level index -> layer, every level of the same layer type
Pyramids ==
    UNION { { [k \in 0..z |-> l] : l \in Layers } : z \in 0..MaxZoom }

Collections == [ id : {SelfId}, pyramid : Pyramids, metadata : Metadatas ]

RECURSIVE SortedLevels(_)
SortedLevels(S) ==
    IF S = {} THEN <<>>
    ELSE LET m == CHOOSE x \in S : \A y \in S : x <= y
         IN <<m>> \o SortedLevels(S \ {m})

\* Pyramid.layer_type / max_zoom
pyramid_layer_type(pyr) == pyr[CHOOSE k \in DOMAIN pyr : \A j \in DOMAIN pyr : k <= j].layer_type

max_zoom(pyr) == CHOOSE k \in DOMAIN pyr : \A j \in DOMAIN pyr : j <= k

_is_spatial(c) == c.pyramid[max_zoom(c.pyramid)].layer_type = SPATIAL

-----------------------------------------------------------------------------
(* The distributed store as a black box: the trace of invoked operations *)

RECURSIVE ConcatAll(_)
ConcatAll(ss) == IF ss = <<>> THEN <<>> ELSE Head(ss) \o ConcatAll(Tail(ss))

\* one invoked store operation: on which level, on which tiling of the layer
StoreOp(op, k, layer, name, window) ==
    [ op |-> op, level |-> k, tiling |-> layer.tiling, layer_type |-> layer.layer_type,
      name |-> name, window |-> window ]

\* the operations `ops`, invoked in this order on each level of the pyramid in turn
\* (the dict comprehension of apply_to_levels calls func level by level)
LevelOps(pyr, ops, name, window) ==
    LET ls == SortedLevels(DOMAIN pyr)
    IN ConcatAll([ i \in DOMAIN ls |->
            [ j \in DOMAIN ops |-> StoreOp(ops[j], ls[i], pyr[ls[i]], name, window) ] ])

\* what a method hands back: the error it raised ("" if none), the collection it
\* returned ({} is None) and the store operations it invoked
Out(err, res, trace) == [ err |-> err, result |-> res, trace |-> trace ]

Raise(err, trace) == Out(err, {}, trace)

\* a variant that rebuilds the levels on the receiver object instead of a new object
apply_to_levels_in_place(self, layer_type_of, tiling_of) ==
    [ id |-> self.id,
      pyramid |-> [ k \in DOMAIN self.pyramid |->
                      [ layer_type |-> layer_type_of[self.pyramid[k].layer_type],
                        tiling |-> tiling_of[self.pyramid[k].tiling] ] ],
      metadata |-> self.metadata ]

\* apply_to_levels / _apply_to_levels_geotrellis_rdd: a new collection object with one
\* rebuilt layer per level of the receiver and the receiver's metadata
apply_to_levels(self, layer_type_of, tiling_of) ==
    [ id |-> NewId,
      pyramid |-> [ k \in DOMAIN self.pyramid |->
                      [ layer_type |-> layer_type_of[self.pyramid[k].layer_type],
                        tiling |-> tiling_of[self.pyramid[k].tiling] ] ],
      metadata |-> self.metadata ]

SameType == [ t \in {SPATIAL, SPACETIME} |-> t ]
ToSpatial == [ t \in {SPATIAL, SPACETIME} |-> SPATIAL ]
ToSpacetime == [ t \in {SPATIAL, SPACETIME} |-> SPACETIME ]
Tilings == {"source", "retiled", "stripped"}
SameTiling == [ t \in Tilings |-> t ]
Retiled == [ t \in Tilings |-> "retiled" ]
Stripped == [ t \in Tilings |-> "stripped" ]

-----------------------------------------------------------------------------
(* User code and reducers *)

\* udf_args.get('udf'): not a string, a string that compiles, a string that does not
UdfNone == [ isstr |-> FALSE, compiles |-> FALSE ]
UdfGood == [ isstr |-> TRUE, compiles |-> TRUE ]
UdfSyntaxError == [ isstr |-> TRUE, compiles |-> FALSE ]
Udfs == { UdfNone, UdfGood, UdfSyntaxError }

\* a process graph (a dict of nodes): the process ids of its nodes and, for a run_udf
\* node, the 'udf' argument
Graphs ==
    [ nodes : { <<N_run_udf>> }, udf : Udfs ]
        \cup [ nodes : { <<p>> : p \in ProcessIds }
                         \cup { <<P_add, P_divide>>, <<P_add, P_add>>, <<N_run_udf, P_add>> },
               udf : { UdfNone } ]

\* SingleNodeUDFProcessGraphVisitor: the arguments of the node end up in udf_args
SingleNodeUDFProcessGraphVisitor(graph) ==
    [ kind |-> "udf", udf |-> graph.udf, processes |-> {} ]

\* GeotrellisTileProcessGraphVisitor: processes is a dict keyed by process id
GeotrellisTileProcessGraphVisitor(graph) ==
    [ kind |-> "tile", udf |-> UdfNone,
      processes |-> { graph.nodes[i] : i \in DOMAIN graph.nodes } ]

accept_process_graph(graph) ==
    IF Len(graph.nodes) = 1 /\ graph.nodes[1] = N_run_udf
    THEN SingleNodeUDFProcessGraphVisitor(graph)
    ELSE GeotrellisTileProcessGraphVisitor(graph)

Visitors == { accept_process_graph(g) : g \in Graphs }

-----------------------------------------------------------------------------
(* Collection methods the dispatcher delegates to *)

\* the part of a trace entry an operation does not use
NoName == <<>>
NoWindow == <<>>

NormalizedOk(r) == [ err |-> "", reducer |-> r ]
NormalizedErr(e, r) == [ err |-> e, reducer |-> r ]

\* a variant that compares the reducer name as given, without upper()
_normalize_temporal_reducer_case_sensitive(self, dimension, reducer) ==
    IF ~has_temporal_dimension(self.metadata)
    THEN NormalizedErr("MetadataException", reducer)
    ELSE IF dimension # self.metadata.temporal
    THEN NormalizedErr("UnsupportedDimension", reducer)
    ELSE IF reducer \in {N_MIN, N_MAX, N_SUM, N_MEAN, N_VARIANCE}
    THEN NormalizedOk(capitalize(lower(reducer)))
    ELSE IF reducer = N_SD
    THEN NormalizedOk(N_StandardDeviation)
    ELSE NormalizedErr("UnsupportedReducer", reducer)

_normalize_temporal_reducer(self, dimension, reducer) ==
    IF ~has_temporal_dimension(self.metadata)
    THEN NormalizedErr("MetadataException", reducer)
    ELSE IF dimension # self.metadata.temporal
    THEN NormalizedErr("UnsupportedDimension", reducer)
    ELSE IF upper(reducer) \in {N_MIN, N_MAX, N_SUM, N_MEAN, N_VARIANCE}
    THEN NormalizedOk(capitalize(lower(reducer)))
    ELSE IF upper(reducer) = N_SD
    THEN NormalizedOk(N_StandardDeviation)
    ELSE NormalizedErr("UnsupportedReducer", reducer)

_aggregate_over_time_numpy(self, reducer) ==
    Out("", { apply_to_levels(self, ToSpatial, SameTiling) },
        LevelOps(self.pyramid, <<"to_spatial_layer", "convert_data_type", "aggregate_numpy">>,
                 reducer, NoWindow))

reduce(self, reducer, dimension) ==
    LET n == _normalize_temporal_reducer(self, dimension, reducer)
    IN IF n.err # "" THEN Raise(n.err, <<>>)
       ELSE IF n.reducer \in {N_Variance, N_StandardDeviation, N_Min, N_Max, N_Sum}
       THEN _aggregate_over_time_numpy(self, n.reducer)
       ELSE Out("", { apply_to_levels(self, ToSpatial, SameTiling) },
                LevelOps(self.pyramid, <<"to_spatial_layer", "aggregate_by_cell">>,
                         n.reducer, NoWindow))

reduce_bands(self, pgVisitor) ==
    Out("", { apply_to_levels(self, SameType, SameTiling) },
        LevelOps(self.pyramid, <<"convert_data_type">>, NoName, NoWindow)
            \o LevelOps(self.pyramid, <<"map_bands">>, NoName, NoWindow))

\* apply_tiles as the dispatcher sees it: the per-tile function is mapped over each level
apply_tiles_call(self, udf) ==
    Out("", { apply_to_levels(self, SameType, SameTiling) },
        LevelOps(self.pyramid, <<"convert_data_type", "udf_single">>, NoName, NoWindow))

\* apply_tiles_spatiotemporal as the dispatcher sees it: compile first, then group and
\* map the per-group function over each level
apply_tiles_spatiotemporal_call(self, udf) ==
    IF ~udf.compiles THEN Raise("SyntaxError", <<>>)
    ELSE Out("", { apply_to_levels(self, ToSpacetime, SameTiling) },
             LevelOps(self.pyramid, <<"convert_data_type", "udf_grouped">>, NoName, NoWindow))

-----------------------------------------------------------------------------
(* reduce_dimension *)

\* what reduce_dimension leaves behind: Out plus the reducer object and the receiver as
\* they are after the call
Done(o, reducer, self) ==
    [ err |-> o.err, result |-> o.result, trace |-> o.trace, reducer |-> reducer, self |-> self ]

\* the levels of a pyramid that are not spatial yet
NonSpatialLevels(pyr) ==
    [ k \in { j \in DOMAIN pyr : pyr[j].layer_type # SPATIAL } |-> pyr[k] ]

\* the tail of reduce_dimension: the result's metadata is replaced by the reduced
\* metadata and, if the temporal dimension was reduced, its levels are made spatial
reduce_dimension_finish(self, dimension, reducer, o) ==
    IF o.err # "" \/ o.result = {} THEN Done(o, reducer, self)
    ELSE LET rc == CHOOSE c \in o.result : TRUE
             reduced == [ rc EXCEPT !.metadata = md_reduce_dimension(rc.metadata, dimension) ]
             \* the assignment is to the result object: it shows on the receiver only
             \* if the result is the receiver itself
             self2 == IF rc.id = SelfId THEN reduced ELSE self
         IN IF /\ has_temporal_dimension(self2.metadata)
               /\ dimension = self2.metadata.temporal
               /\ pyramid_layer_type(self2.pyramid) # SPATIAL
            THEN Done(Out("", { apply_to_levels(reduced, ToSpatial, SameTiling) },
                          o.trace \o LevelOps(NonSpatialLevels(reduced.pyramid),
                                              <<"to_spatial_layer">>, NoName, NoWindow)),
                      reducer, self2)
            ELSE Done(Out("", { reduced }, o.trace), reducer, self2)

\* dict.popitem() on the processes of a visitor with a single process
popitem(reducer) ==
    [ key |-> CHOOSE p \in reducer.processes : TRUE,
      reducer |-> [ reducer EXCEPT !.processes = {} ] ]

\* reduce_dimension with the reducer already a visitor (a dict goes through
\* accept_process_graph first)
reduce_dimension(self, dimension, reducer) ==
    IF reducer.kind = "udf"
    THEN IF ~reducer.udf.isstr
         THEN Done(Raise("UdfNotString", <<>>), reducer, self)
         ELSE IF ~has_temporal_dimension(self.metadata)
         THEN Done(Raise("MetadataException", <<>>), reducer, self)
         ELSE IF dimension = self.metadata.temporal
         THEN reduce_dimension_finish(self, dimension, reducer,
                                      apply_tiles_spatiotemporal_call(self, reducer.udf))
         ELSE IF ~has_band_dimension(self.metadata)
         THEN Done(Raise("MetadataException", <<>>), reducer, self)
         ELSE IF dimension = self.metadata.band
         THEN reduce_dimension_finish(self, dimension, reducer,
                                      apply_tiles_call(self, reducer.udf))
         ELSE reduce_dimension_finish(self, dimension, reducer, Out("", {}, <<>>))
    ELSE IF has_band_dimension(self.metadata) /\ dimension = self.metadata.band
    THEN reduce_dimension_finish(self, dimension, reducer, reduce_bands(self, reducer))
    ELSE IF Cardinality(reducer.processes) = 1
    THEN LET p == popitem(reducer)
         IN reduce_dimension_finish(self, dimension, p.reducer,
                                    reduce(self, p.key, dimension))
    ELSE Done(Raise("UnsupportedCombination", <<>>), reducer, self)

\* the inputs an error message names
ErrorNames(err) ==
    CASE err = "UnsupportedCombination" -> {"reducer", "dimension"}
      [] err = "UnsupportedDimension" -> {"dimension"}
      [] err = "UnsupportedReducer" -> {"reducer"}
      [] err = "UdfNotString" -> {"udf"}
      [] OTHER -> {}

-----------------------------------------------------------------------------
(* The dispatcher as a state machine: a caller holds a cube and a visitor and calls
   reduce_dimension on it; it may go on with the collection a call returned *)

Dimensions == {"t", "bands", "x", "gender"}

NoGraph == [ nodes |-> <<>>, udf |-> UdfNone ]
NoVisitor == [ kind |-> "none", udf |-> UdfNone, processes |-> {} ]
NoSizes == <<>>

NoCall ==
    [ op |-> "none", self |-> {}, dimension |-> "", reducer |-> NoVisitor,
      process |-> NoGraph, size |-> NoSizes, overlap |-> NoSizes ]

NoOutcome == [ err |-> "", trace |-> <<>>, reducer |-> NoVisitor ]

\* no UDF operation is in progress
NoMode == [op |-> "none", function |-> UdfNone]

UdfIdle ==
    /\ level = {}
    /\ mode = NoMode
    /\ pending = {}
    /\ out = {}
    /\ invocations = {}
    /\ failure = ""

Init ==
    /\ cube \in Collections
    /\ visitor \in Visitors
    /\ call = NoCall
    /\ outcome = NoOutcome
    /\ result = {}
    /\ UdfIdle

\* no call is in progress or waiting for the caller to pick up its outcome
Idle == call.op = "none"

\* the effect of a reduce_dimension call on the state
ReduceDimensionCall(dimension, reducer, d) ==
    /\ Idle
    /\ call' = [ NoCall EXCEPT !.op = "reduce_dimension", !.self = {cube},
                               !.dimension = dimension, !.reducer = reducer ]
    /\ outcome' = [ err |-> d.err, trace |-> d.trace, reducer |-> d.reducer ]
    /\ result' = d.result
    /\ cube' = d.self

\* reduce_dimension(dimension, reducer) with the reducer given as a process graph dict
ReduceDimensionGraph(dimension, graph) ==
    /\ LET reducer == accept_process_graph(graph)
       IN ReduceDimensionCall(dimension, reducer, reduce_dimension(cube, dimension, reducer))
    /\ UNCHANGED visitor
    /\ UNCHANGED udfVars

\* reduce_dimension(dimension, reducer) with the caller's visitor object
ReduceDimensionVisitor(dimension) ==
    /\ LET d == reduce_dimension(cube, dimension, visitor)
       IN /\ ReduceDimensionCall(dimension, visitor, d)
          /\ visitor' = d.reducer
    /\ UNCHANGED udfVars

\* the caller builds another visitor
NewVisitor(v) ==
    /\ Idle
    /\ v # visitor
    /\ visitor' = v
    /\ UNCHANGED <<cube, call, outcome, result>>
    /\ UNCHANGED udfVars

\* the caller goes on with the collection the last call returned
Adopt ==
    /\ result # {}
    /\ cube' = [ (CHOOSE c \in result : TRUE) EXCEPT !.id = SelfId ]
    /\ call' = NoCall
    /\ outcome' = NoOutcome
    /\ result' = {}
    /\ UNCHANGED visitor
    /\ UNCHANGED udfVars

\* the caller drops what the last call returned (or handles its error) and keeps its cube
Discard ==
    /\ ~Idle
    /\ call' = NoCall
    /\ outcome' = NoOutcome
    /\ result' = {}
    /\ UNCHANGED <<cube, visitor>>
    /\ UNCHANGED udfVars

Next ==
    \/ /\ Idle
       /\ \E dimension \in Dimensions, graph \in Graphs : ReduceDimensionGraph(dimension, graph)
    \/ /\ Idle
       /\ \E dimension \in Dimensions : ReduceDimensionVisitor(dimension)
    \/ /\ Idle
       /\ \E v \in Visitors : NewVisitor(v)
    \/ Adopt
    \/ Discard

Spec == Init /\ [][Next]_vars

-----------------------------------------------------------------------------
(* apply_neighborhood *)

\* the smallest window size apply_neighborhood accepts
MinWindowSize == 32

\* dict.get(key, default) on a dict modelled as a function
Get(dict, key, default) == IF key \in DOMAIN dict THEN dict[key] ELSE default

\* e.get('unit', None) of a missing entry ({}) or of an entry without a unit
NoUnit == ""
NoEntry == [ unit |-> NoUnit, value |-> 0 ]
\* the overlap of a spatial dimension that has no entry
DefaultOverlap == [ unit |-> "px", value |-> 0 ]
\* temporal_size.get('value', None) of an entry without a value
NoValue == "None"
NoTemporalEntry == [ unit |-> NoUnit, value |-> NoValue ]

\* the dispatch of apply_neighborhood once the level is retiled
apply_neighborhood_dispatch(self, retiled_collection, process, temporal_size, temporal_overlap) ==
    IF process.kind = "udf"
    THEN IF ~process.udf.isstr
         THEN Raise("UdfNotString", <<>>)
         ELSE IF temporal_size = {} \/ (\A e \in temporal_size : e.value = NoValue)
         THEN apply_tiles_spatiotemporal_call(retiled_collection, process.udf)
         ELSE IF (\A e \in temporal_size : e.value = "P1D") /\ temporal_overlap = {}
         THEN apply_tiles_call(retiled_collection, process.udf)
         ELSE Raise("UnsupportedTemporalWindow", <<>>)
    ELSE IF process.kind = "tile"
    THEN IF temporal_size = {} \/ (\A e \in temporal_size : e.value = NoValue)
         THEN Raise("UnsupportedCallback", <<>>)
         ELSE IF (\A e \in temporal_size : e.value = "P1D") /\ temporal_overlap = {}
         THEN reduce_bands(self, process)
         ELSE Raise("UnsupportedCallback", <<>>)
    ELSE Raise("SingleUdfOnly", <<>>)

\* the unit check of the window sizes of the two spatial dimensions
size_unit_invalid(size, x, y) ==
    Get(size, x, NoEntry).unit # "px" \/ Get(size, y, NoEntry).unit # "px"

\* a variant that checks the x size only
window_too_small_x_only(sizeX, sizeY) == sizeX < MinWindowSize

\* the check of the window sizes against the floor
window_too_small(sizeX, sizeY) == sizeX < MinWindowSize \/ sizeY < MinWindowSize

\* a variant that checks the x overlap only
overlap_unit_invalid_x_only(overlap_x, overlap_y) == overlap_x.unit # "px"

\* the unit check of the (defaulted) overlaps of the two spatial dimensions
overlap_unit_invalid(overlap_x, overlap_y) == overlap_x.unit # "px" \/ overlap_y.unit # "px"

\* size and overlap are the dicts size_dict and overlap_dict: dimension name -> entry;
\* process is a process graph
apply_neighborhood(self, process, size, overlap) ==
    LET spatial_dims == self.metadata.spatial
    IN
    IF Len(spatial_dims) # 2 THEN Raise("UnexpectedSpatialDimensions", <<>>)
    ELSE
    LET x == spatial_dims[1]
        y == spatial_dims[2]
    IN
    IF size_unit_invalid(size, x, y) THEN Raise("InvalidSizeUnit", <<>>)
    ELSE
    LET sizeX == size[x].value
        sizeY == size[y].value
    IN
    IF window_too_small(sizeX, sizeY) THEN Raise("WindowTooSmall", <<>>)
    ELSE
    LET overlap_x == Get(overlap, x, DefaultOverlap)
        overlap_y == Get(overlap, y, DefaultOverlap)
    IN
    IF overlap_unit_invalid(overlap_x, overlap_y) THEN Raise("InvalidOverlapUnit", <<>>)
    ELSE
    LET overlap_x_value == overlap_x.value
        overlap_y_value == overlap_y.value
        window == <<sizeX, sizeY, overlap_x_value, overlap_y_value>>
        retiled_collection == apply_to_levels(self, SameType, Retiled)
        retile == LevelOps(self.pyramid, <<"retile">>, NoName, window)
        visited == accept_process_graph(process)
        \* the entries of the temporal dimension: {} is None
        temporal_size ==
            IF has_temporal_dimension(self.metadata) /\ self.metadata.temporal \in DOMAIN size
            THEN { size[self.metadata.temporal] } ELSE {}
        temporal_overlap ==
            IF has_temporal_dimension(self.metadata) /\ self.metadata.temporal \in DOMAIN overlap
            THEN { overlap[self.metadata.temporal] } ELSE {}
        d == apply_neighborhood_dispatch(self, retiled_collection, visited,
                                         temporal_size, temporal_overlap)
    IN
    IF d.err # "" THEN Raise(d.err, retile \o d.trace)
    ELSE IF overlap_x_value > 0 \/ overlap_y_value > 0
    THEN LET result_collection == CHOOSE c \in d.result : TRUE
         IN Out("", { apply_to_levels(result_collection, SameType, Stripped) },
                retile \o d.trace
                    \o LevelOps(result_collection.pyramid, <<"remove_overlap">>, NoName, window))
    ELSE Out("", d.result, retile \o d.trace)

\* the inputs of apply_neighborhood the model draws from
SizeEntries == { [ unit |-> "px", value |-> 31 ], [ unit |-> "px", value |-> 32 ],
                 [ unit |-> "m", value |-> 32 ] }
OverlapEntries == { [ unit |-> "px", value |-> 8 ], [ unit |-> "m", value |-> 8 ] }
TemporalSizeEntries == { [ unit |-> NoUnit, value |-> NoValue ], [ unit |-> NoUnit, value |-> "P1D" ],
                         [ unit |-> NoUnit, value |-> "P2D" ] }
TemporalOverlapEntries == { [ unit |-> NoUnit, value |-> "P1D" ] }

\* the dicts with an entry from xs for "x", ys for "y", ts for "t", or without one
Dicts(xs, ys, ts) ==
    LET Part(k, es) == { [ d \in {k} |-> e ] : e \in es } \cup { <<>> }
        Join(f, g) == [ k \in DOMAIN f \cup DOMAIN g |-> IF k \in DOMAIN f THEN f[k] ELSE g[k] ]
    IN { Join(Join(fx, fy), ft) : fx \in Part("x", xs), fy \in Part("y", ys), ft \in Part("t", ts) }

Sizes == Dicts(SizeEntries, SizeEntries, TemporalSizeEntries)
Overlaps == Dicts(OverlapEntries, OverlapEntries, TemporalOverlapEntries)

NeighborhoodGraphs ==
    [ nodes : { <<N_run_udf>> }, udf : Udfs ]
        \cup [ nodes : { <<P_add>>, <<P_add, P_divide>> }, udf : { UdfNone } ]

ApplyNeighborhood(process, size, overlap) ==
    /\ Idle
    /\ LET o == apply_neighborhood(cube, process, size, overlap)
       IN /\ call' = [ NoCall EXCEPT !.op = "apply_neighborhood", !.self = {cube},
                                     !.process = process, !.size = size, !.overlap = overlap ]
          /\ outcome' = [ err |-> o.err, trace |-> o.trace, reducer |-> NoVisitor ]
          /\ result' = o.result
    /\ UNCHANGED <<cube, visitor>>
    /\ UNCHANGED udfVars

InitNeighborhood ==
    /\ cube \in Collections
    /\ visitor = NoVisitor
    /\ call = NoCall
    /\ outcome = NoOutcome
    /\ result = {}
    /\ UdfIdle

NextNeighborhood ==
    \/ /\ Idle
       /\ \E process \in NeighborhoodGraphs, size \in Sizes, overlap \in Overlaps :
             ApplyNeighborhood(process, size, overlap)
    \/ Discard

SpecNeighborhood == InitNeighborhood /\ [][NextNeighborhood]_vars

-----------------------------------------------------------------------------
(* Properties of the dispatcher *)

\* the receiver as it was when the last call started
Receiver == CHOOSE c \in call.self : TRUE

\* the names of the store operations a trace invoked
Ops(trace) == { trace[i].op : i \in DOMAIN trace }

AggregateOps == {"aggregate_numpy", "aggregate_by_cell"}
UdfOps == {"udf_single", "udf_grouped"}

\* the built-in reducers of the temporal dimension, in lower case
BuiltinReducers ==
    { <<"m","i","n">>, <<"m","a","x">>, <<"s","u","m">>, <<"m","e","a","n">>,
      <<"v","a","r","i","a","n","c","e">>, <<"s","d">> }

IsReduceDimension == call.op = "reduce_dimension"

\* a reduce_dimension call with a well-formed reducer (a run_udf callback carries a udf
\* string that compiles) on a cube that declares a temporal and a band dimension
WellFormedReduce ==
    /\ IsReduceDimension
    /\ has_temporal_dimension(Receiver.metadata)
    /\ has_band_dimension(Receiver.metadata)
    /\ call.reducer.kind = "udf" => call.reducer.udf = UdfGood

\* C1: reduce_dimension on a name that is no declared dimension of the cube fails with
\* UnsupportedDimension, for every reducer kind, and invokes no store operation.
C1_UndeclaredDimensionFails ==
    (WellFormedReduce /\ call.dimension \notin dimension_names(Receiver.metadata))
        => (outcome.err = "UnsupportedDimension" /\ outcome.trace = <<>>)

\* the dispatch paths of reduce_dimension: the built-in reduction (a reducer of a single
\* named process, which rejects a wrong dimension or name itself), a run_udf callback on
\* the temporal or on the band dimension, a graph on the band dimension
SupportedPath ==
    LET md == Receiver.metadata
        r == call.reducer
    IN \/ r.kind = "tile" /\ Cardinality(r.processes) = 1
       \/ r.kind = "udf" /\ call.dimension = md.temporal
       \/ r.kind = "udf" /\ call.dimension = md.band
       \/ r.kind = "tile" /\ call.dimension = md.band

\* C2: reduce_dimension ends with a result collection or an error; a combination that
\* is none of the supported paths fails with UnsupportedCombination, and the message
\* names the reducer and the dimension.
C2_ResultOrUnsupportedCombination ==
    WellFormedReduce =>
        /\ (result # {} \/ outcome.err # "")
        /\ (~SupportedPath =>
              /\ outcome.err = "UnsupportedCombination"
              /\ {"reducer", "dimension"} \subseteq ErrorNames(outcome.err))

\* C3: with a single run_udf callback (its udf a string that compiles) the grouped path
\* runs exactly when the dimension is the temporal dimension's name, the single-tile
\* path exactly when it is the band dimension's name, never both, and neither the
\* built-in reduction nor the band-algebra evaluator runs.
C3_UdfDispatch ==
    (IsReduceDimension /\ call.reducer.kind = "udf" /\ call.reducer.udf = UdfGood) =>
        LET md == Receiver.metadata
            ops == Ops(outcome.trace)
        IN /\ ("udf_grouped" \in ops)
                <=> (has_temporal_dimension(md) /\ call.dimension = md.temporal)
           /\ ("udf_single" \in ops)
                <=> (has_band_dimension(md) /\ call.dimension = md.band)
           /\ ~("udf_grouped" \in ops /\ "udf_single" \in ops)
           /\ ops \cap (AggregateOps \cup {"map_bands"}) = {}

\* C4: a reducer of exactly one named process along the temporal dimension is accepted
\* exactly for min, max, sum, mean, variance and sd (in any case) and then aggregated per
\* cell over time on every level; any other name is rejected as unsupported and no
\* aggregation runs; a graph without a UDF on the band dimension goes to the
\* band-algebra evaluator instead.
C4_BuiltinReducerDispatch ==
    (IsReduceDimension /\ call.reducer.kind = "tile") =>
        LET md == Receiver.metadata
            r == call.reducer
            ops == Ops(outcome.trace)
        IN /\ (/\ Cardinality(r.processes) = 1
               /\ has_temporal_dimension(md) /\ call.dimension = md.temporal)
                => IF \A p \in r.processes : lower(p) \in BuiltinReducers
                   THEN /\ outcome.err = ""
                        /\ result # {}
                        /\ \A k \in DOMAIN Receiver.pyramid :
                              \E i \in DOMAIN outcome.trace :
                                 /\ outcome.trace[i].level = k
                                 /\ outcome.trace[i].op \in AggregateOps
                        /\ ops \cap (UdfOps \cup {"map_bands"}) = {}
                   ELSE /\ outcome.err = "UnsupportedReducer"
                        /\ result = {}
                        /\ outcome.trace = <<>>
           /\ (/\ N_run_udf \notin r.processes
               /\ has_band_dimension(md) /\ call.dimension = md.band)
                => /\ outcome.err = ""
                   /\ result # {}
                   /\ \A k \in DOMAIN Receiver.pyramid :
                         \E i \in DOMAIN outcome.trace :
                            outcome.trace[i].level = k /\ outcome.trace[i].op = "map_bands"
                   /\ ops \cap (AggregateOps \cup UdfOps) = {}

\* a single process "Sd" along the temporal dimension was accepted and aggregated
C4_Witness ==
    /\ IsReduceDimension
    /\ call.reducer.kind = "tile"
    /\ call.reducer.processes = { <<"S","d">> }
    /\ call.dimension = "t"
    /\ outcome.err = ""
    /\ result # {}
    /\ "aggregate_numpy" \in Ops(outcome.trace)

\* C5: after a reduce_dimension that returned a collection, the result's metadata no
\* longer declares the reduced dimension; if that was the temporal dimension of a
\* spatiotemporal pyramid, every level of the result is spatial; the receiver still
\* declares the dimension (its metadata is as before the call).
C5_ReducedDimensionDropped ==
    (IsReduceDimension /\ outcome.err = "" /\ result # {}) =>
        \A c \in result :
            /\ call.dimension \notin dimension_names(c.metadata)
            /\ DOMAIN c.pyramid = DOMAIN Receiver.pyramid
            /\ (/\ has_temporal_dimension(Receiver.metadata)
                /\ call.dimension = Receiver.metadata.temporal
                /\ pyramid_layer_type(Receiver.pyramid) = SPACETIME)
                 => \A k \in DOMAIN c.pyramid : c.pyramid[k].layer_type = SPATIAL
            /\ call.dimension \in dimension_names(cube.metadata)
            /\ cube.metadata = Receiver.metadata

\* a run_udf reducer over "t" of a two-level spatiotemporal pyramid returned a result
C5_Witness ==
    /\ IsReduceDimension
    /\ outcome.err = ""
    /\ result # {}
    /\ call.dimension = "t"
    /\ call.reducer.kind = "udf"
    /\ DOMAIN Receiver.pyramid = {0, 1}
    /\ pyramid_layer_type(Receiver.pyramid) = SPACETIME
    /\ "to_spatial_layer" \in Ops(outcome.trace)

-----------------------------------------------------------------------------
(* Properties of apply_neighborhood *)

IsApplyNeighborhood == call.op = "apply_neighborhood"

\* the spec's InvalidUnit: either of the two unit errors of apply_neighborhood
InvalidUnitErrors == {"InvalidSizeUnit", "InvalidOverlapUnit"}

\* the window size of dimension d is given in px and is below 32
SmallPx(d) ==
    d \in DOMAIN call.size /\ call.size[d].unit = "px" /\ call.size[d].value < 32

\* the window size of dimension d is missing or not given in px
BadSizeUnit(d) == d \notin DOMAIN call.size \/ call.size[d].unit # "px"

\* an overlap is supplied for dimension d and is not given in px
BadOverlapUnit(d) == d \in DOMAIN call.overlap /\ call.overlap[d].unit # "px"

\* the two spatial dimensions of a receiver that declares exactly two
SpatialX == Receiver.metadata.spatial[1]
SpatialY == Receiver.metadata.spatial[2]
TwoSpatial == Len(Receiver.metadata.spatial) = 2

\* C6, as stated: a window size below 32 px in x or in y makes apply_neighborhood fail
\* with WindowTooSmall, and retile is not invoked in that call.
C6_SmallWindowIsWindowTooSmall ==
    (IsApplyNeighborhood /\ TwoSpatial /\ (SmallPx(SpatialX) \/ SmallPx(SpatialY)))
        => (outcome.err = "WindowTooSmall" /\ "retile" \notin Ops(outcome.trace))

\* C6, amended: when both window sizes are given in px and one is below 32 the call
\* fails with WindowTooSmall; whenever a window size is below 32 px the call fails
\* (with WindowTooSmall, or with InvalidUnit for the other size's unit) and retile is
\* not invoked.
C6_SmallWindowRejectedBeforeRetile ==
    (IsApplyNeighborhood /\ TwoSpatial /\ (SmallPx(SpatialX) \/ SmallPx(SpatialY)))
        => /\ outcome.err \in {"WindowTooSmall", "InvalidSizeUnit"}
           /\ (~BadSizeUnit(SpatialX) /\ ~BadSizeUnit(SpatialY))
                => outcome.err = "WindowTooSmall"
           /\ result = {}
           /\ "retile" \notin Ops(outcome.trace)

\* x is 32 px and only y is below the floor: rejected as too small
C6_Witness ==
    /\ IsApplyNeighborhood
    /\ TwoSpatial
    /\ ~SmallPx(SpatialX) /\ ~BadSizeUnit(SpatialX)
    /\ SmallPx(SpatialY)
    /\ outcome.err = "WindowTooSmall"

\* the failures the dispatcher raises about its inputs
DispatcherErrors ==
    { "UnsupportedDimension", "UnsupportedReducer", "UnsupportedCombination",
      "UnexpectedSpatialDimensions", "InvalidSizeUnit", "InvalidOverlapUnit",
      "WindowTooSmall", "UnsupportedTemporalWindow", "UnsupportedCallback", "SingleUdfOnly" }

\* C7: a failure of reduce_dimension or apply_neighborhood for an unsupported dimension,
\* an unsupported reducer/callback/temporal-window combination, an invalid unit or a
\* too-small window is raised before the first store operation of the call.
C7_DispatcherErrorsBeforeStore ==
    ((IsReduceDimension \/ IsApplyNeighborhood) /\ outcome.err \in DispatcherErrors)
        => outcome.trace = <<>>

\* C8, as stated: InvalidUnit whenever a spatial window size is missing or not in px or
\* a supplied spatial overlap is not in px; an omitted overlap counts as 0 px and is
\* accepted; a cube without exactly two spatial dimensions is rejected first.
C8_InvalidUnitWhenever ==
    IsApplyNeighborhood =>
        /\ ~TwoSpatial => outcome.err = "UnexpectedSpatialDimensions"
        /\ TwoSpatial =>
              /\ (\/ BadSizeUnit(SpatialX) \/ BadSizeUnit(SpatialY)
                  \/ BadOverlapUnit(SpatialX) \/ BadOverlapUnit(SpatialY))
                   <=> outcome.err \in InvalidUnitErrors
              /\ \A i \in DOMAIN outcome.trace :
                    outcome.trace[i].op = "retile" =>
                       /\ SpatialX \notin DOMAIN call.overlap => outcome.trace[i].window[3] = 0
                       /\ SpatialY \notin DOMAIN call.overlap => outcome.trace[i].window[4] = 0

\* C8, amended: the unit of a supplied overlap is inspected only after the window sizes
\* passed their unit check and the 32 px floor; a too-small window is reported as
\* WindowTooSmall whatever the overlap's unit.
C8_InvalidUnitInOrder ==
    IsApplyNeighborhood =>
        /\ ~TwoSpatial => outcome.err = "UnexpectedSpatialDimensions"
        /\ TwoSpatial =>
              /\ (\/ BadSizeUnit(SpatialX) \/ BadSizeUnit(SpatialY)
                  \/ /\ ~SmallPx(SpatialX) /\ ~SmallPx(SpatialY)
                     /\ (BadOverlapUnit(SpatialX) \/ BadOverlapUnit(SpatialY)))
                   <=> outcome.err \in InvalidUnitErrors
              /\ (/\ ~BadSizeUnit(SpatialX) /\ ~BadSizeUnit(SpatialY)
                  /\ (SmallPx(SpatialX) \/ SmallPx(SpatialY)))
                   => outcome.err = "WindowTooSmall"
              /\ \A i \in DOMAIN outcome.trace :
                    outcome.trace[i].op = "retile" =>
                       /\ SpatialX \notin DOMAIN call.overlap => outcome.trace[i].window[3] = 0
                       /\ SpatialY \notin DOMAIN call.overlap => outcome.trace[i].window[4] = 0

\* the sizes are fine, the x overlap is omitted and the y overlap is given in m
C8_Witness ==
    /\ IsApplyNeighborhood
    /\ TwoSpatial
    /\ ~BadSizeUnit(SpatialX) /\ ~BadSizeUnit(SpatialY)
    /\ ~SmallPx(SpatialX) /\ ~SmallPx(SpatialY)
    /\ SpatialX \notin DOMAIN call.overlap
    /\ BadOverlapUnit(SpatialY)
    /\ outcome.err = "InvalidOverlapUnit"

\* the store operations that run a callback
CallbackOps == UdfOps \cup {"map_bands"}

\* C9: for every accepted callback apply_neighborhood retiles each level, then runs the
\* callback on the retiled level (grouped when no temporal size is given, single-date
\* for 'P1D' without temporal overlap), then strips the overlap from the callback's
\* result; the callback never runs on the un-retiled source level.
C9_RetileCallbackStrip ==
    (IsApplyNeighborhood /\ outcome.err = "" /\ result # {}) =>
        LET t == outcome.trace
        IN /\ \E i \in DOMAIN t : t[i].op \in CallbackOps
           /\ \A i \in DOMAIN t :
                 /\ t[i].op \in CallbackOps =>
                       /\ t[i].tiling = "retiled"
                       /\ \E j \in 1..(i - 1) : t[j].op = "retile" /\ t[j].level = t[i].level
                 /\ t[i].op = "remove_overlap" =>
                       \E j \in 1..(i - 1) : t[j].op \in CallbackOps /\ t[j].level = t[i].level
           /\ (\E i \in DOMAIN t : t[i].op = "retile" /\ (t[i].window[3] > 0 \/ t[i].window[4] > 0))
                 => \E i \in DOMAIN t : t[i].op = "remove_overlap"

-----------------------------------------------------------------------------
(* The UDF pipeline on one level: apply_tiles hands every tile of the level  *)
(* to user code, apply_tiles_spatiotemporal hands it every group of tiles    *)
(* with the same spatial key.  The store evaluates the tiles, or groups, of  *)
(* a level in any order.                                                     *)

\* tile columns are 0..MaxCol
MaxCol == 1
\* instants are 1..MaxInstant
MaxInstant == 2
\* a level holds at most MaxTiles tiles
MaxTiles == 3
\* user code returns at most MaxCubes datacubes
MaxCubes == 2

Cols == 0..MaxCol
Instants == 1..MaxInstant
\* the instant datetime.now() gives to a result without time axis
Now == MaxInstant + 1

SpatialKey(col, row) == [col |-> col, row |-> row]
SpaceTimeKey(col, row, instant) == [col |-> col, row |-> row, instant |-> instant]
Tile(cells, cell_type, no_data_value) ==
    [cells |-> cells, cell_type |-> cell_type, no_data_value |-> no_data_value]

FLOAT32 == "float32"
CellTypes == {"uint8", FLOAT32}
NoDataValues == {0, 255}

Keys == { SpaceTimeKey(c, 0, i) : c \in Cols, i \in Instants }

\* the cells of the input tile with key k: no two input tiles hold the same cells
CellsOf(k) == k.col * (MaxInstant + 1) + k.instant

\* the levels of a spatiotemporal layer: no two tiles share a key
UdfLevels ==
    { { [key |-> k, tile |-> Tile(CellsOf(k), ct, nd)] : k \in ks } :
        ks \in { q \in SUBSET Keys : Cardinality(q) <= MaxTiles },
        ct \in CellTypes, nd \in NoDataValues }

\* rdd.convert_data_type(CellType.FLOAT32).to_numpy_rdd()
convert_data_type(tiles, cell_type) ==
    { [key |-> t.key, tile |-> Tile(t.tile.cells, cell_type, t.tile.no_data_value)] : t \in tiles }

\* floatrdd.map(lambda t: (SpatialKey(t[0].col, t[0].row), (t[0], t[1]))).groupByKey()
groupByKey(tiles) ==
    { [key |-> g, tiles |-> { t \in tiles : SpatialKey(t.key.col, t.key.row) = g }] :
        g \in { SpatialKey(t.key.col, t.key.row) : t \in tiles } }

\* the orders in which the store may hand the tiles of a group to the tile function
Orderings(tiles) ==
    { f \in [1..Cardinality(tiles) -> tiles] :
        \A a, b \in 1..Cardinality(tiles) : a # b => f[a] # f[b] }

\* the sorted list with t inserted behind the entries whose instant is not larger
RECURSIVE InsertByInstant(_, _)
InsertByInstant(sorted, t) ==
    IF sorted = <<>> THEN <<t>>
    ELSE IF Head(sorted).key.instant <= t.key.instant
         THEN <<Head(sorted)>> \o InsertByInstant(Tail(sorted), t)
         ELSE <<t>> \o sorted

\* a tile list left in the order of arrival
keep_arrival_order(tile_list) == tile_list

\* tile_list.sort(key=lambda tup: tup[0].instant): a stable sort by instant
RECURSIVE SortByInstant(_)
SortByInstant(tile_list) ==
    IF tile_list = <<>> THEN <<>>
    ELSE InsertByInstant(SortByInstant(SubSeq(tile_list, 1, Len(tile_list) - 1)),
                         tile_list[Len(tile_list)])

\* _tile_to_datacube: the cells, the t coordinate and the band coordinate of the cube
\* handed to user code
_tile_to_datacube(cells, band_dimension, start_times) ==
    [array |-> cells, t |-> start_times, bands |-> band_dimension]

\* what one run of user code does: it raises, or it returns a list of datacubes
UserRaises(text) == [raises |-> TRUE, cubes |-> <<>>, text |-> text]
UserReturns(cubes) == [raises |-> FALSE, cubes |-> cubes, text |-> ""]

\* the error texts of failing user code
ErrorTexts == {"ZeroDivisionError: division by zero", "KeyError: 'B08'"}

\* the result arrays user code may return for a tile: the input cells, or other cells
CellShift == 100
SingleResults(datacube) ==
    { [array |-> datacube.array, t |-> <<>>],
      [array |-> datacube.array + CellShift, t |-> <<>>] }

\* the result arrays user code may return for a group: the input array with its time
\* axis, the input array with every time step labelled with the first instant, or an
\* array without time axis (here: the first slice)
GroupedResults(datacube) ==
    { [array |-> datacube.array, t |-> datacube.t],
      [array |-> datacube.array, t |-> [i \in DOMAIN datacube.t |-> datacube.t[1]]],
      [array |-> datacube.array[1], t |-> <<>>] }

\* run_user_code(function, data): user code that does not compile cannot return;
\* other user code raises or returns 0..MaxCubes copies of a result array
run_user_code(function, arrays) ==
    IF ~function.compiles THEN {UserRaises("SyntaxError")}
    ELSE { UserRaises(text) : text \in ErrorTexts } \cup
         { UserReturns([i \in 1..n |-> a]) : n \in 0..MaxCubes, a \in arrays }

\* the single-result check as a check that lets an empty result list through
more_than_one_datacube(cubes) == Len(cubes) > 1

\* if len(cubes)!=1: raise ValueError("The provided UDF should return one datacube ...")
not_one_datacube(cubes) == Len(cubes) # 1

\* the entries of seq at the positions where the label sequence holds v
RECURSIVE SelectByLabel(_, _, _)
SelectByLabel(seq, labels, v) ==
    IF seq = <<>> THEN <<>>
    ELSE (IF Head(labels) = v THEN <<Head(seq)>> ELSE <<>>)
            \o SelectByLabel(Tail(seq), Tail(labels), v)

\* a variant of groupby that yields one slice per time step, also for repeated labels
groupby_per_time_step(result_array) ==
    { [timestamp |-> result_array.t[i], values |-> result_array.array[i]] :
        i \in DOMAIN result_array.t }

\* result_array.groupby('t'): one (timestamp, array_slice) per distinct value of t; a
\* slice of a value that labels one time step is that step, a slice of a repeated
\* value holds all steps it labels
groupby_t(result_array) ==
    { [timestamp |-> v,
       values |-> LET steps == SelectByLabel(result_array.array, result_array.t, v)
                  IN IF Len(steps) = 1 THEN steps[1] ELSE steps] :
        v \in { result_array.t[i] : i \in DOMAIN result_array.t } }

\* the outcome of one tile function: an error, or the tiles it returns
TileError(err) == [err |-> err, tiles |-> {}]
TileResult(tiles) == [err |-> "", tiles |-> tiles]

\* a tile function that catches the exception of user code and raises one of its own
caught_and_replaced(result_data) == TileError("UdfExecutionError")

\* the tile functions have no exception handler around run_user_code: what user code
\* raises leaves the tile function as it is
uncaught(result_data) == TileError(result_data.text)

\* the cube apply_tiles.tilefunction hands to user code
apply_tiles_datacube(openeo_metadata, geotrellis_tile) ==
    _tile_to_datacube(geotrellis_tile.tile.cells, openeo_metadata.band, <<>>)

\* apply_tiles.tilefunction, from the result of run_user_code on
apply_tiles_tilefunction(geotrellis_tile, result_data) ==
    IF result_data.raises THEN uncaught(result_data)
    ELSE IF not_one_datacube(result_data.cubes) THEN TileError("ValueError")
    ELSE IF result_data.cubes = <<>> THEN TileError("IndexError")
    ELSE LET result_array == result_data.cubes[1]
         IN TileResult({ [key |-> geotrellis_tile.key,
                          tile |-> Tile(result_array.array,
                                        geotrellis_tile.tile.cell_type,
                                        geotrellis_tile.tile.no_data_value)] })

\* the cube apply_tiles_spatiotemporal.tilefunction hands to user code
apply_tiles_spatiotemporal_datacube(openeo_metadata, tiles) ==
    LET tile_list == SortByInstant(tiles.tiles)
        dates == [i \in DOMAIN tile_list |-> tile_list[i].key.instant]
        multidim_array == [i \in DOMAIN tile_list |-> tile_list[i].tile.cells]
    IN _tile_to_datacube(multidim_array,
                         IF has_band_dimension(openeo_metadata)
                             THEN openeo_metadata.band ELSE NoDim,
                         dates)

\* apply_tiles_spatiotemporal.tilefunction, from the result of run_user_code on
apply_tiles_spatiotemporal_tilefunction(tiles, result_data) ==
    LET tile_list == SortByInstant(tiles.tiles)
        nodata == tile_list[1].tile.no_data_value
    IN IF result_data.raises THEN uncaught(result_data)
       ELSE IF not_one_datacube(result_data.cubes) THEN TileError("ValueError")
       ELSE IF result_data.cubes = <<>> THEN TileError("IndexError")
       ELSE LET result_array == result_data.cubes[1]
            IN IF result_array.t # <<>>
               THEN TileResult({ [key |-> SpaceTimeKey(tiles.key.col, tiles.key.row,
                                                       slice.timestamp),
                                  tile |-> Tile(slice.values, FLOAT32, nodata)] :
                                 slice \in groupby_t(result_array) })
               ELSE TileResult({ [key |-> SpaceTimeKey(tiles.key.col, tiles.key.row, Now),
                                  tile |-> Tile(result_array.array, FLOAT32, nodata)] })

\* one invocation of user code: the key of the input, the tiles in the order the tile
\* function received them, the cube handed to user code and what user code did
Invocation(input, arrival, datacube, result_data) ==
    [input |-> input, arrival |-> arrival, datacube |-> datacube, result |-> result_data]

UdfFunctions == {UdfGood, UdfSyntaxError}

\* a one-level spatiotemporal cube with a time dimension and two spatial dimensions
UdfCubes ==
    { c \in Collections :
        /\ DOMAIN c.pyramid = {0}
        /\ c.pyramid[0].layer_type = SPACETIME
        /\ c.metadata.temporal = "t"
        /\ Len(c.metadata.spatial) = 2 }

UdfStopped == mode.op = "none"

\* apply_tiles(function): every tile is converted to float and mapped
ApplyTiles(function) ==
    /\ UdfStopped
    /\ mode' = [op |-> "apply_tiles", function |-> function]
    /\ pending' = convert_data_type(level, FLOAT32)
    /\ out' = {}
    /\ invocations' = {}
    /\ failure' = ""
    /\ UNCHANGED <<level, dispatchVars>>

\* apply_tiles_spatiotemporal(function): the code is compiled, then every tile is
\* converted to float and the tiles are grouped by spatial key
ApplyTilesSpatiotemporal(function) ==
    /\ UdfStopped
    /\ mode' = [op |-> "apply_tiles_spatiotemporal", function |-> function]
    /\ IF ~function.compiles
       THEN failure' = "SyntaxError" /\ pending' = {}
       ELSE failure' = "" /\ pending' = groupByKey(convert_data_type(level, FLOAT32))
    /\ out' = {}
    /\ invocations' = {}
    /\ UNCHANGED <<level, dispatchVars>>

\* the store evaluates apply_tiles.tilefunction on one tile
TileFunctionSingle ==
    /\ mode.op = "apply_tiles"
    /\ failure = ""
    /\ \E geotrellis_tile \in pending :
          /\ pending' = pending \ {geotrellis_tile}
          /\ IF ~has_band_dimension(cube.metadata)
             THEN /\ failure' = "MetadataException"
                  /\ UNCHANGED <<out, invocations>>
             ELSE LET datacube == apply_tiles_datacube(cube.metadata, geotrellis_tile)
                  IN \E result_data \in run_user_code(mode.function, SingleResults(datacube)) :
                        LET r == apply_tiles_tilefunction(geotrellis_tile, result_data)
                        IN /\ failure' = r.err
                           /\ out' = out \cup r.tiles
                           /\ invocations' = invocations \cup
                                 {Invocation(geotrellis_tile.key, <<geotrellis_tile>>,
                                             datacube, result_data)}
    /\ UNCHANGED <<level, mode, dispatchVars>>

\* the store evaluates apply_tiles_spatiotemporal.tilefunction on one group
TileFunctionGrouped ==
    /\ mode.op = "apply_tiles_spatiotemporal"
    /\ failure = ""
    /\ \E group \in pending : \E arrival \in Orderings(group.tiles) :
          LET tiles == [key |-> group.key, tiles |-> arrival]
              datacube == apply_tiles_spatiotemporal_datacube(cube.metadata, tiles)
          IN \E result_data \in run_user_code(mode.function, GroupedResults(datacube)) :
                LET r == apply_tiles_spatiotemporal_tilefunction(tiles, result_data)
                IN /\ pending' = pending \ {group}
                   /\ failure' = r.err
                   /\ out' = out \cup r.tiles
                   /\ invocations' = invocations \cup
                         {Invocation(tiles.key, arrival, datacube, result_data)}
    /\ UNCHANGED <<level, mode, dispatchVars>>

\* the operation ended, with a level or with a failure, and the caller moves on
UdfDone ==
    /\ ~UdfStopped
    /\ pending = {} \/ failure # ""
    /\ mode' = NoMode
    /\ pending' = {}
    /\ out' = {}
    /\ invocations' = {}
    /\ failure' = ""
    /\ UNCHANGED <<level, dispatchVars>>

InitUdf ==
    /\ cube \in UdfCubes
    /\ visitor = NoVisitor
    /\ call = NoCall
    /\ outcome = NoOutcome
    /\ result = {}
    /\ level \in UdfLevels
    /\ mode = NoMode
    /\ pending = {}
    /\ out = {}
    /\ invocations = {}
    /\ failure = ""

NextUdf ==
    \/ \E function \in UdfFunctions : ApplyTiles(function)
    \/ \E function \in UdfFunctions : ApplyTilesSpatiotemporal(function)
    \/ TileFunctionSingle
    \/ TileFunctionGrouped
    \/ UdfDone

SpecUdf == InitUdf /\ [][NextUdf]_vars

-----------------------------------------------------------------------------
(* Properties of the UDF pipeline *)

\* the invocations in which user code returned a list of datacubes that is not of length 1
ContractViolations ==
    { i \in invocations : ~i.result.raises /\ Len(i.result.cubes) # 1 }

\* the output tiles that stem from the input (tile key or spatial key) of invocation i
TilesFrom(i) == { t \in out : t.key.col = i.input.col /\ t.key.row = i.input.row
                                /\ ("instant" \in DOMAIN i.input => t.key.instant = i.input.instant) }

\* C10: in apply_tiles and in apply_tiles_spatiotemporal, an invocation in which user
\* code returns zero or more than one result array fails the operation with the
\* single-result error (ValueError), and no output tile stems from that invocation.
C10_SingleResultContract ==
    \A i \in ContractViolations :
        /\ failure = "ValueError"
        /\ TilesFrom(i) = {}

\* a group whose user code returned an empty list failed the grouped operation after
\* another group had produced its tiles
C10_Witness ==
    /\ mode.op = "apply_tiles_spatiotemporal"
    /\ \E i \in ContractViolations : i.result.cubes = <<>>
    /\ failure = "ValueError"
    /\ out # {}


\* the keys of a set of (key, tile) pairs
KeysOf(tiles) == { t.key : t \in tiles }

\* every invocation of user code so far returned exactly one datacube
AllReturnedOne == \A i \in invocations : ~i.result.raises /\ Len(i.result.cubes) = 1

\* every invocation of user code so far returned its input array unchanged
AllIdentity ==
    \A i \in invocations :
        /\ ~i.result.raises
        /\ Len(i.result.cubes) = 1
        /\ i.result.cubes[1].t = i.datacube.t
        /\ i.result.cubes[1].array = i.datacube.array

\* the level after rdd.convert_data_type(CellType.FLOAT32)
FloatLevel == convert_data_type(level, FLOAT32)

\* C11: for every level, with or without a declared band dimension, apply_tiles (with
\* user code that returns one array per tile) yields for every evaluated input key
\* exactly one output tile with that key, the cell type and nodata value of the
\* float-coerced input tile and the cells user code returned for the key; with the
\* identity user function the output tiles equal the float-coerced input tiles.
C11_ApplyTilesKeepsKeys ==
    (mode.op = "apply_tiles" /\ AllReturnedOne) =>
        /\ failure = ""
        /\ KeysOf(out) = KeysOf(level) \ KeysOf(pending)
        /\ \A t \in out :
              /\ \E s \in FloatLevel :
                    /\ s.key = t.key
                    /\ s.tile.cell_type = t.tile.cell_type
                    /\ s.tile.no_data_value = t.tile.no_data_value
              /\ \E i \in invocations :
                    i.input = t.key /\ i.result.cubes[1].array = t.tile.cells
        /\ AllIdentity => out = FloatLevel \ pending

\* the spatial keys of a set of (key, tile) pairs
SpatialKeysOf(tiles) == { SpatialKey(t.key.col, t.key.row) : t \in tiles }

\* the tiles of the input level that carry the spatial key g
TilesOfGroup(g) == { t \in FloatLevel : SpatialKey(t.key.col, t.key.row) = g }

\* C12: apply_tiles_spatiotemporal (with user code that compiles) invokes user code once per spatial key of the level
\* (N invocations for N spatial keys once every group was evaluated), each time with
\* all tiles of that key stacked in ascending order of instant and the t coordinate
\* equal to those instants in the same order, whatever order the tiles arrived in.
C12_OneSortedStackPerSpatialKey ==
    (mode.op = "apply_tiles_spatiotemporal" /\ mode.function.compiles) =>
        /\ { i.input : i \in invocations }
              = SpatialKeysOf(level) \ { g.key : g \in pending }
        /\ Cardinality(invocations) = Cardinality({ i.input : i \in invocations })
        /\ (pending = {} /\ failure = "")
              => Cardinality(invocations) = Cardinality(SpatialKeysOf(level))
        /\ \A i \in invocations :
              LET dc == i.datacube
              IN /\ Len(dc.t) = Cardinality(TilesOfGroup(i.input))
                 /\ Len(dc.array) = Len(dc.t)
                 /\ \A a, b \in DOMAIN dc.t : a < b => dc.t[a] < dc.t[b]
                 /\ \A a \in DOMAIN dc.t :
                       \E t \in TilesOfGroup(i.input) :
                          t.key.instant = dc.t[a] /\ t.tile.cells = dc.array[a]

\* every group was evaluated, and one of them arrived with a later instant first
C12_Witness ==
    /\ mode.op = "apply_tiles_spatiotemporal"
    /\ pending = {}
    /\ failure = ""
    /\ Cardinality(invocations) = 2
    /\ \E i \in invocations :
          /\ Len(i.arrival) = 2
          /\ i.arrival[1].key.instant > i.arrival[2].key.instant
          /\ i.datacube.t = <<1, 2>>

\* the output tiles with the column and row of the spatial key g
TilesAt(g) == { t \in out : t.key.col = g.col /\ t.key.row = g.row }

\* C13: in grouped mode a result that keeps its time axis yields one output tile per
\* distinct time value of the result, keyed by the group's column and row and that time
\* value; a result without time axis yields exactly one output tile keyed by the
\* group's column and row; with the identity user function the output has the key set,
\* the tile count and the cells of the float-coerced input.
C13_GroupedOutputKeys ==
    (mode.op = "apply_tiles_spatiotemporal" /\ AllReturnedOne) =>
        /\ \A i \in invocations :
              LET result_array == i.result.cubes[1]
                  times == { result_array.t[a] : a \in DOMAIN result_array.t }
              IN IF result_array.t # <<>>
                 THEN /\ KeysOf(TilesAt(i.input))
                            = { SpaceTimeKey(i.input.col, i.input.row, v) : v \in times }
                      /\ Cardinality(TilesAt(i.input)) = Cardinality(times)
                 ELSE /\ Cardinality(TilesAt(i.input)) = 1
                      /\ \A t \in TilesAt(i.input) : t.tile.cells = result_array.array
        /\ (AllIdentity /\ pending = {} /\ mode.function.compiles) =>
              /\ KeysOf(out) = KeysOf(FloatLevel)
              /\ Cardinality(out) = Cardinality(FloatLevel)
              /\ \A t \in out : \E u \in FloatLevel :
                    u.key = t.key /\ u.tile.cells = t.tile.cells

\* a group of two instants whose result labels both time steps with the same time value
\* gave one tile, and another group gave one tile without time axis
C13_Witness ==
    /\ mode.op = "apply_tiles_spatiotemporal"
    /\ failure = ""
    /\ \E i \in invocations :
          /\ Len(i.datacube.t) = 2
          /\ Len(i.result.cubes) = 1
          /\ i.result.cubes[1].t = <<1, 1>>
          /\ Cardinality(TilesAt(i.input)) = 1
    /\ \E i \in invocations :
          /\ Len(i.result.cubes) = 1
          /\ i.result.cubes[1].t = <<>>
          /\ Cardinality(TilesAt(i.input)) = 1

\* C14: in both UDF modes user code with a syntax error is rejected when the operation
\* is called: the call fails with the syntax error, and no tile is converted, grouped
\* or handed to user code.
C14_SyntaxErrorRejectedAtCall ==
    (~UdfStopped /\ ~mode.function.compiles) =>
        /\ failure = "SyntaxError"
        /\ pending = {}
        /\ invocations = {}
        /\ out = {}

\* the invocations in which user code raised
FailedInvocations == { i \in invocations : i.result.raises }

-----------------------------------------------------------------------------
(* Stitching: _collect_as_xarray groups the tiles of a level by date, stitches *)
(* the tiles of every date into one window (stitch_at_time, on the workers)    *)
(* and stacks the windows into one array.  Pixels, extents and offsets are     *)
(* integers; an array is its shape and its cells in row-major order.           *)

\* a layout has 1..MaxLayout columns and 1..MaxLayout rows of tiles
MaxLayout == 2
\* a tile is 1..MaxTilePx pixels wide and 1..MaxTilePx pixels high
MaxTilePx == 2
\* the key bounds of a level span at most MaxStitchTiles keys
MaxStitchTiles == 4
\* tiles hold 1..MaxBands bands
MaxBands == 2

\* map units per pixel of the layouts
Resolution == 10

\* numpy: an array of the given shape (a sequence of 1..3 lengths) over flat cells
NdArray(shape, data) == [shape |-> shape, data |-> data]

RECURSIVE Product(_)
Product(shape) == IF shape = <<>> THEN 1 ELSE Head(shape) * Product(Tail(shape))

\* arr[i, j, k] of a 3-dimensional array (0-based, row-major)
At3(arr, i, j, k) == arr.data[(i * arr.shape[2] + j) * arr.shape[3] + k]

\* arr.reshape((-1, d2, d3)): the same cells under a new shape
reshape3(arr, d2, d3) ==
    NdArray(<<Product(arr.shape) \div (d2 * d3), d2, d3>>, arr.data)

\* arr.shape[-2:]
LastTwo(shape) == <<shape[Len(shape) - 1], shape[Len(shape)]>>

\* the cell of band b, pixel row r, pixel column c of the input tile with key k
Pixel(k, b, r, c) == <<k.col, k.row, b, r, c>>

\* the cells of the input tile with key k: shape (bands, tileRows, tileCols)
TileCells(k, bands, tileLayout) ==
    LET h == tileLayout.tileRows
        w == tileLayout.tileCols
    IN NdArray(<<bands, h, w>>,
               [ f \in 0..(bands * h * w - 1) |->
                    Pixel(k, f \div (h * w), (f % (h * w)) \div w, f % w) ])

\* rdd.layer_metadata.layout_definition: the tile layout and the extent it covers
TileLayouts ==
    [ layoutCols : 1..MaxLayout, layoutRows : 1..MaxLayout,
      tileCols : 1..MaxTilePx, tileRows : 1..MaxTilePx ]

LayoutDefinition(tileLayout, xmin, ymin) ==
    [ tileLayout |-> tileLayout,
      extent |-> [ xmin |-> xmin, ymin |-> ymin,
                   xmax |-> xmin + tileLayout.layoutCols * tileLayout.tileCols * Resolution,
                   ymax |-> ymin + tileLayout.layoutRows * tileLayout.tileRows * Resolution ] ]

SpatialExtent(top, bottom, right, left, height, width) ==
    [ top |-> top, bottom |-> bottom, right |-> right, left |-> left,
      height |-> height, width |-> width ]

\* _mapTransform(layoutDefinition, spatialKey): the geographic extent of a key
_mapTransform(layoutDefinition, spatialKey) ==
    LET ex == layoutDefinition.extent
        x_range == ex.xmax - ex.xmin
        xinc == x_range \div layoutDefinition.tileLayout.layoutCols
        yrange == ex.ymax - ex.ymin
        yinc == yrange \div layoutDefinition.tileLayout.layoutRows
    IN SpatialExtent(ex.ymax - yinc * spatialKey.row,
                     ex.ymax - yinc * (spatialKey.row + 1),
                     ex.xmin + xinc * (spatialKey.col + 1),
                     ex.xmin + xinc * spatialKey.col,
                     layoutDefinition.tileLayout.tileCols,
                     layoutDefinition.tileLayout.tileRows)

\* layout_win: (xmin, ymin, width, height) of the whole layout in pixels
layout_win(layout_pix) ==
    <<0, 0, layout_pix.layoutCols * layout_pix.tileCols,
            layout_pix.layoutRows * layout_pix.tileRows>>

\* crop_win when no crop box is supplied: the pixel window of the key bounds
crop_win(layout_pix, bounds) ==
    LET xmin == bounds.minKey.col
        xmax == bounds.maxKey.col + 1
        ymin == bounds.minKey.row
        ymax == bounds.maxKey.row + 1
    IN <<xmin * layout_pix.tileCols, ymin * layout_pix.tileRows,
         (xmax - xmin) * layout_pix.tileCols, (ymax - ymin) * layout_pix.tileRows>>

\* a cell of np.empty: never written, it holds whatever the memory held
GarbageValues == {0, 7}
Uninitialized(garbage) == <<garbage>>

\* a cell of np.full(..., nodata)
Filled(nodata) == <<nodata>>

\* the collector window of stitch_at_time, allocated from the first tile of the group:
\* block sizes, band count, and cells filled with nodata if nodata is truthy
allocate_window(crop, first, garbage) ==
    LET shape == first.tile.cells.shape
        bw == LastTwo(shape)[1]
        bh == LastTwo(shape)[2]
        bbands == IF Len(shape) > 2 THEN shape[1] ELSE 1
        nodata == first.tile.no_data_value
    IN [ bw |-> bw, bh |-> bh, bbands |-> bbands,
         shape |-> <<bbands, crop[3], crop[4]>>,
         cells |-> [ idx \in (0..(bbands - 1)) \X (0..(crop[3] - 1)) \X (0..(crop[4] - 1)) |->
                        IF nodata # 0 THEN Filled(nodata) ELSE Uninitialized(garbage) ] ]

\* nyblk=int(layout_win[3]/bh)-1: the highest block row of the layout
nyblk(layout, bh) == (layout[4] \div bh) - 1

\* iwin of a block: the key with its row flipped to the top-left system, in pixels
iwin(key, layout, bw, bh) ==
    <<key.col * bw, (nyblk(layout, bh) - key.row) * bh, bw, bh>>

\* one iteration of 'for iblk in subarrs': the block's cells are reshaped and
\* transposed to (band, x, y), its y indices reversed, and the part that overlaps the
\* window is copied into the window
merge_block(window, crop, layout, iblk) ==
    LET bw == window.bw
        bh == window.bh
        win == iwin(iblk.key, layout, bw, bh)
        reshaped == reshape3(iblk.tile.cells, bh, bw)
        \* iarr[b, p, q] after transpose((0, 2, 1))
        iarr(b, p, q) == At3(reshaped, b, q, p)
        covered(idx) ==
            /\ crop[1] + idx[2] \in win[1]..(win[1] + win[3] - 1)
            /\ crop[2] + idx[3] \in win[2]..(win[2] + win[4] - 1)
    IN [ window EXCEPT
           !.cells = [ idx \in DOMAIN window.cells |->
                         IF covered(idx)
                         THEN iarr(idx[1],
                                   crop[1] + idx[2] - win[1],
                                   win[2] + win[4] - 1 - (crop[2] + idx[3]))
                         ELSE window.cells[idx] ] ]

\* declared band names, and the names 'band_'+str(i) that replace them
BandName(i) == <<"B", i>>
SyntheticBandName(i) == <<"band_", i>>

\* np.linspace(..., n): the n pixel-centre coordinates of a window side, by index
linspace(n) == [ i \in 1..n |-> i ]

\* the position of a dimension name in dims (0 if absent)
DimIndex(dims, name) ==
    IF \E i \in DOMAIN dims : dims[i] = name
    THEN CHOOSE i \in DOMAIN dims : dims[i] = name
    ELSE 0

\* xr.DataArray(data, dims=dims, coords=coords): fails when the number of dims differs
\* from the number of axes or a coordinate's length differs from its axis
DataArray(shape, dims, coords) ==
    IF \/ Len(shape) # Len(dims)
       \/ \E k \in DOMAIN coords :
             DimIndex(dims, k) # 0 /\ Len(coords[k]) # shape[DimIndex(dims, k)]
    THEN [ err |-> "ValueError", array |-> {} ]
    ELSE [ err |-> "", array |-> { [ shape |-> shape, dims |-> dims, coords |-> coords ] } ]

\* dims and coords as _collect_as_xarray builds them before stitching
xarray_dims(metadata) ==
    (IF has_temporal_dimension(metadata) THEN <<"t">> ELSE <<>>)
        \o (IF has_band_dimension(metadata) THEN <<"bands">> ELSE <<>>)
        \o <<"x", "y">>

xarray_coords(metadata, crop) ==
    (IF has_band_dimension(metadata)
        THEN [ k \in {"bands"} |-> metadata.band_names ]
        ELSE [ k \in {} |-> <<>> ])
        @@ ("x" :> linspace(crop[3])) @@ ("y" :> linspace(crop[4]))

\* collection.sort(key=lambda i: i[0]): the stitched windows in ascending order of date
RECURSIVE SortByDate(_)
SortByDate(collection) ==
    IF collection = {} THEN <<>>
    ELSE LET first == CHOOSE i \in collection : \A j \in collection : i.key <= j.key
         IN <<first>> \o SortByDate(collection \ {first})

\* the collected list is never empty: a variant without the empty-collection return
never_empty(collection) == FALSE

\* if len(collection)==0
is_empty(collection) == collection = {}

\* the part of _collect_as_xarray that follows collect(): the stitched windows
\* (date, window) are stacked into one array with dims and coords
collect_to_xarray(metadata, crop, collection) ==
    LET dims == xarray_dims(metadata)
        coords == xarray_coords(metadata, crop)
        has_time == has_temporal_dimension(metadata)
        has_bands == has_band_dimension(metadata)
    IN IF is_empty(collection)
       THEN DataArray([ i \in DOMAIN dims |-> 0 ], dims,
                      [ k \in DOMAIN coords |-> <<>> ])
       ELSE IF collection = {} THEN [ err |-> "IndexError", array |-> {} ]
       ELSE LET \* if len(collection)>1: collection.sort(key= lambda i: i[0])
                sorted == IF Cardinality(collection) > 1 THEN SortByDate(collection)
                          ELSE <<CHOOSE i \in collection : TRUE>>
                \* if not has_bands: i[1].reshape(list(i[1].shape[-2:]))
                reshape_fails == ~has_bands /\ \E i \in collection : i.window.shape[1] # 1
                window_shape == IF has_bands THEN sorted[1].window.shape
                                ELSE LastTwo(sorted[1].window.shape)
            IN IF reshape_fails THEN [ err |-> "ValueError", array |-> {} ]
               ELSE IF has_time
               THEN LET t == [ i \in DOMAIN sorted |-> sorted[i].key ]
                        npresult == <<Len(sorted)>> \o window_shape
                    IN IF ~has_bands THEN [ err |-> "KeyError", array |-> {} ]
                       ELSE LET nbands == npresult[Len(npresult) - 2]
                                bands == IF Len(coords["bands"]) # nbands
                                         THEN [ i \in 1..nbands |-> SyntheticBandName(i - 1) ]
                                         ELSE coords["bands"]
                            IN DataArray(npresult, dims,
                                         ("t" :> t) @@ ("bands" :> bands) @@ coords)
               ELSE DataArray(window_shape, dims, coords)

-----------------------------------------------------------------------------
(* _collect_as_xarray as a state machine: the tiles of a level are filtered by date,
   grouped by date, every group is stitched into its window block by block, and the
   windows are collected into one array *)

\* the key of the single group of a level without a temporal dimension (Python None)
NoDate == 0 - 1

\* crop_dates=None
NoCropDates == <<>>

CropDates == {NoCropDates} \cup { <<a, b>> : a \in Instants, b \in Instants }

\* rdd.layer_metadata as far as stitching reads it
LayerMetadata(layout_definition, bounds, no_data_value) ==
    [ layout_definition |-> layout_definition, bounds |-> bounds,
      no_data_value |-> no_data_value ]

KeyBounds(c0, r0, c1, r1) == [ minKey |-> SpatialKey(c0, r0), maxKey |-> SpatialKey(c1, r1) ]

KeysIn(bounds) ==
    { SpatialKey(c, r) : c \in bounds.minKey.col..bounds.maxKey.col,
                         r \in bounds.minKey.row..bounds.maxKey.row }

\* the key bounds inside a layout that span at most MaxStitchTiles keys
BoundsOf(tileLayout) ==
    { KeyBounds(c0, r0, c1, r1) :
        <<c0, c1, r0, r1>> \in
            { q \in (0..(tileLayout.layoutCols - 1)) \X (0..(tileLayout.layoutCols - 1))
                       \X (0..(tileLayout.layoutRows - 1)) \X (0..(tileLayout.layoutRows - 1)) :
                /\ q[1] <= q[2]
                /\ q[3] <= q[4]
                /\ (q[2] - q[1] + 1) * (q[4] - q[3] + 1) <= MaxStitchTiles } }

StitchCube(layer_type, layer_metadata, temporal, declared) ==
    [ id |-> SelfId,
      pyramid |-> [ z \in {0} |-> [ layer_type |-> layer_type, tiling |-> "source",
                                    layer_metadata |-> layer_metadata ] ],
      metadata |-> [ temporal |-> temporal,
                     band |-> IF declared = 0 THEN NoDim ELSE "bands",
                     spatial |-> <<"x", "y">>,
                     band_names |-> [ i \in 1..declared |-> BandName(i) ] ] ]

\* the tiles of a level: one tile of the layout's tile size per key
StitchTiles(keys, bands, tileLayout, no_data_value) ==
    { [ key |-> k, tile |-> Tile(TileCells(k, bands, tileLayout), FLOAT32, no_data_value) ] :
        k \in keys }
\* spatial levels of every layout and key bounds, complete or with one tile missing,
\* with as many bands as the metadata declares
GeometryInputs ==
    UNION { UNION { { [ cube |-> StitchCube(SPATIAL,
                                            LayerMetadata(LayoutDefinition(tl, 0, 0), b, nd),
                                            NoDim, 1),
                        level |-> StitchTiles(KeysIn(b) \ missing, 1, tl, nd) ] :
                        missing \in {{}} \cup { {k} : k \in KeysIn(b) },
                        nd \in NoDataValues } :
                    b \in BoundsOf(tl) } :
            tl \in TileLayouts }

\* levels of one 1x1 tile per instant whose metadata declares 0..MaxBands band names,
\* with or without a temporal dimension, and whose tiles hold 1..MaxBands bands
AssemblyInputs ==
    LET tl == [ layoutCols |-> 1, layoutRows |-> 1, tileCols |-> 1, tileRows |-> 1 ]
        lm == LayerMetadata(LayoutDefinition(tl, 0, 0), KeyBounds(0, 0, 0, 0), 255)
    IN { [ cube |-> StitchCube(SPACETIME, lm, "t", declared),
           level |-> StitchTiles({ SpaceTimeKey(0, 0, i) : i \in instants },
                                 bands, tl, 255) ] :
           declared \in 0..MaxBands, bands \in 1..MaxBands, instants \in SUBSET Instants }
       \cup
       { [ cube |-> StitchCube(SPATIAL, lm, NoDim, declared),
           level |-> StitchTiles(keys, bands, tl, 255) ] :
           declared \in 0..MaxBands, bands \in 1..MaxBands,
           keys \in { {}, {SpatialKey(0, 0)} } }

StitchInputs == GeometryInputs \cup AssemblyInputs

\* the layer that is stitched: the level of the pyramid
StitchRdd == cube.pyramid[0]

StitchLayout == StitchRdd.layer_metadata.layout_definition.tileLayout

StitchCrop == crop_win(StitchLayout, StitchRdd.layer_metadata.bounds)

\* .filter(lambda t: (t[0].instant>=crop_dates[0] and t[0].instant<=crop_dates[1])
\*         if has_time and crop_dates != None else True)
filter_dates(tiles, has_time, crop_dates) ==
    { t \in tiles :
        IF has_time /\ crop_dates # NoCropDates
        THEN t.key.instant >= crop_dates[1] /\ t.key.instant <= crop_dates[2]
        ELSE TRUE }

\* .map(lambda t: (t[0].instant if has_time else None, (t[0], t[1]))).groupByKey()
group_by_date(tiles, has_time) ==
    LET date(t) == IF has_time THEN t.key.instant ELSE NoDate
    IN { [ key |-> d, tiles |-> { t \in tiles : date(t) = d } ] :
           d \in { date(t) : t \in tiles } }

StitchIdle == mode.op = "none"

\* _collect_as_xarray(rdd, crop_bounds=None, crop_dates): the tiles are filtered and
\* grouped; every group is a stitch_at_time task
CollectAsXarray(crop_dates) ==
    /\ StitchIdle
    /\ call' = [ op |-> "_collect_as_xarray", crop_dates |-> crop_dates ]
    /\ mode' = [ op |-> "_collect_as_xarray", function |-> UdfNone ]
    /\ pending' = group_by_date(
                     filter_dates(level, has_temporal_dimension(cube.metadata), crop_dates),
                     has_temporal_dimension(cube.metadata))
    /\ UNCHANGED <<cube, visitor, outcome, result, level, out, invocations, failure>>

\* stitch_at_time up to the first iteration of its loop: the window is allocated from
\* the first tile of the group (in whatever order the group lists them) and that tile
\* is merged
StitchAtTime ==
    /\ mode.op = "_collect_as_xarray"
    /\ \E group \in pending :
        \E first \in group.tiles : \E garbage \in GarbageValues :
            LET window == allocate_window(StitchCrop, first, garbage)
            IN /\ invocations' = invocations \cup
                    { [ key |-> group.key,
                        allocated |-> window.cells,
                        subarrs |-> group.tiles \ {first},
                        merged |-> { [ key |-> first.key,
                                       iwin |-> iwin(first.key, layout_win(StitchLayout),
                                                     window.bw, window.bh) ] },
                        window |-> merge_block(window, StitchCrop,
                                               layout_win(StitchLayout), first) ] }
               /\ pending' = pending \ {group}
    /\ UNCHANGED <<dispatchVars, level, mode, out, failure>>

\* one further iteration of 'for iblk in subarrs'
StitchBlock ==
    /\ mode.op = "_collect_as_xarray"
    /\ \E st \in invocations :
        \E iblk \in st.subarrs :
            invocations' = (invocations \ {st}) \cup
                { [ st EXCEPT !.subarrs = @ \ {iblk},
                              !.merged = @ \cup
                                  { [ key |-> iblk.key,
                                      iwin |-> iwin(iblk.key, layout_win(StitchLayout),
                                                    st.window.bw, st.window.bh) ] },
                              !.window = merge_block(@, StitchCrop,
                                                     layout_win(StitchLayout), iblk) ] }
    /\ UNCHANGED <<dispatchVars, level, mode, pending, out, failure>>

\* return (items[0],window): the stitched window of a date joins the collected list
StitchReturn ==
    /\ mode.op = "_collect_as_xarray"
    /\ \E st \in invocations :
        /\ st.subarrs = {}
        /\ out' = out \cup { [ key |-> st.key, window |-> st.window,
                               allocated |-> st.allocated, merged |-> st.merged ] }
        /\ invocations' = invocations \ {st}
    /\ UNCHANGED <<dispatchVars, level, mode, pending, failure>>

\* after .collect(): the windows are assembled into the result, or the call raises
CollectToXarray ==
    /\ mode.op = "_collect_as_xarray"
    /\ pending = {}
    /\ invocations = {}
    /\ LET r == collect_to_xarray(cube.metadata, StitchCrop, out)
       IN /\ result' = r.array
          /\ failure' = r.err
    /\ mode' = [ mode EXCEPT !.op = "returned" ]
    /\ UNCHANGED <<cube, visitor, call, outcome, level, pending, out, invocations>>

\* the caller drops the result; the collection can be stitched again
StitchDone ==
    /\ mode.op = "returned"
    /\ mode' = NoMode
    /\ call' = NoCall
    /\ result' = {}
    /\ out' = {}
    /\ failure' = ""
    /\ UNCHANGED <<cube, visitor, outcome, level, pending, invocations>>

InitStitch ==
    /\ \E input \in StitchInputs :
        /\ cube = input.cube
        /\ level = input.level
    /\ visitor = NoVisitor
    /\ call = NoCall
    /\ outcome = NoOutcome
    /\ result = {}
    /\ mode = NoMode
    /\ pending = {}
    /\ out = {}
    /\ invocations = {}
    /\ failure = ""

NextStitch ==
    \/ \E crop_dates \in CropDates : CollectAsXarray(crop_dates)
    \/ StitchAtTime
    \/ StitchBlock
    \/ StitchReturn
    \/ CollectToXarray
    \/ StitchDone

SpecStitch == InitStitch /\ [][NextStitch]_vars
-----------------------------------------------------------------------------
(* Properties of stitching *)

\* the key bounds of the level span the whole layout
FullLayout ==
    StitchRdd.layer_metadata.bounds =
        KeyBounds(0, 0, StitchLayout.layoutCols - 1, StitchLayout.layoutRows - 1)

\* the window cell was copied from the input tile with spatial key k
FromTile(cell, k) == Len(cell) = 5 /\ cell[1] = k.col /\ cell[2] = k.row

\* C16: stitching a layout of C x R tiles of w x h pixels with no crop gives a window of
\* C*w by R*h pixels in which the tile with key (col, row) occupies exactly the x range
\* [col*w, (col+1)*w) and the y range [(R-1-row)*h, (R-row)*h); in a 2x2 grid pixel
\* (x=0, y=0) comes from the tile with column 0, row 1
C16_StitchPlacement ==
    \A st \in out :
        FullLayout =>
            LET w == StitchLayout.tileCols
                h == StitchLayout.tileRows
                R == StitchLayout.layoutRows
            IN /\ LastTwo(st.window.shape) = <<StitchLayout.layoutCols * w, R * h>>
               /\ \A t \in level : \A idx \in DOMAIN st.window.cells :
                    FromTile(st.window.cells[idx], t.key)
                        <=> /\ idx[2] \in (t.key.col * w)..((t.key.col + 1) * w - 1)
                            /\ idx[3] \in ((R - 1 - t.key.row) * h)..((R - t.key.row) * h - 1)

\* C16 restricted to square tiles
C16_SquareTiles ==
    StitchLayout.tileCols = StitchLayout.tileRows => C16_StitchPlacement

\* a complete 2x2 grid has been stitched and pixel (0, 0) comes from tile (0, 1)
C16_SquareWitness ==
    /\ StitchLayout.layoutCols = 2 /\ StitchLayout.layoutRows = 2
    /\ StitchLayout.tileCols = 2 /\ StitchLayout.tileRows = 2
    /\ Cardinality(level) = 4
    /\ \E st \in out : FromTile(st.window.cells[<<0, 0, 0>>], SpatialKey(0, 1))
\* the pixel position, relative to the layout origin, and the pixel size of the extent
\* that _mapTransform returns for a key: (xmin, ymin, width, height)
ExtentWin(layoutDefinition, key) ==
    LET ext == _mapTransform(layoutDefinition, key)
    IN << (ext.left - layoutDefinition.extent.xmin) \div Resolution,
          (ext.bottom - layoutDefinition.extent.ymin) \div Resolution,
          ext.width, ext.height >>

\* C17: for every layout and every key whose block stitching merges, the pixel offset
\* computed for the block equals the pixel position of the extent _mapTransform returns
\* for the key, and the extent's pixel width and height are the layout's tile width
\* (tileCols) and tile height (tileRows)
C17_StitchOffsetIsMapTransform ==
    \A st \in invocations : \A blk \in st.merged :
        LET ext == ExtentWin(StitchRdd.layer_metadata.layout_definition, blk.key)
        IN /\ blk.iwin[1] = ext[1]
           /\ blk.iwin[2] = ext[2]
           /\ ext[3] = StitchLayout.tileCols
           /\ ext[4] = StitchLayout.tileRows

\* C17 restricted to square tiles
C17_SquareTiles ==
    StitchLayout.tileCols = StitchLayout.tileRows => C17_StitchOffsetIsMapTransform
\* _collect_as_xarray has returned or raised
StitchReturned == mode.op = "returned"

\* C18: when no tile is left to stitch (the level is empty, or the date filter removes
\* every tile), _collect_as_xarray returns without raising an array whose length is 0
\* along every one of its dimensions
C18_EmptyCollectionGivesEmptyArray ==
    (StitchReturned /\ out = {}) =>
        /\ failure = ""
        /\ \E a \in result :
            /\ Len(a.shape) = Len(a.dims)
            /\ \A i \in DOMAIN a.shape : a.shape[i] = 0

\* a level with tiles has been stitched under a date range that holds none of them
C18_Witness ==
    /\ StitchReturned
    /\ out = {}
    /\ level # {}
    /\ call.crop_dates # NoCropDates
    /\ result # {}
\* the number of declared band names differs from the band count of the stitched data
BandCountMismatch ==
    \E st \in out : Len(cube.metadata.band_names) # st.window.shape[1]

SyntheticBandNames(n) == [ i \in 1..n |-> SyntheticBandName(i - 1) ]

\* C19: stitching never fails because the number of declared band names differs from
\* the band count of the stitched data, whether the level is spatiotemporal or
\* spatial-only and whether or not a band dimension is declared: an array is returned,
\* and its band coordinate holds the synthetic names band_0 .. band_(n-1)
C19_BandMismatchRepaired ==
    (StitchReturned /\ BandCountMismatch) =>
        /\ failure = ""
        /\ \E a \in result :
            "bands" \in DOMAIN a.coords =>
                \E st \in out : a.coords["bands"] = SyntheticBandNames(st.window.shape[1])

\* C19 restricted to levels that declare both a temporal and a band dimension
C19_SpacetimeWithBands ==
    (has_temporal_dimension(cube.metadata) /\ has_band_dimension(cube.metadata))
        => C19_BandMismatchRepaired

\* a spatiotemporal level with fewer declared band names than bands has been stitched
C19_SpacetimeWitness ==
    /\ StitchReturned
    /\ BandCountMismatch
    /\ has_temporal_dimension(cube.metadata)
    /\ has_band_dimension(cube.metadata)
    /\ \E a \in result : a.coords["bands"] = SyntheticBandNames(2)
-----------------------------------------------------------------------------
(* polygonal_mean_timeseries: the tiles of the masked level are keyed by instant and
   aggregated per instant with aggregateByKey: in every partition a task folds the
   tiles of an instant into a [(sum, count)] accumulator with combine_cells, the
   accumulators of an instant are merged with combine_values, and to_mean divides *)

\* a level holds at most MaxMeanTiles tiles
MaxMeanTiles == 3

\* the tiles lie in three columns and at two instants, and are spread over as many
\* partitions as a level has tiles at most
MeanCols == 0..2
MeanInstants == 1..2
Partitions == 1..MaxMeanTiles
MeanKeys == { SpaceTimeKey(c, 0, i) : c \in MeanCols, i \in MeanInstants }

\* np.nan as a cell value
NaN == 0 - 1000

isnan(v) == v = NaN

\* the pixels of a band of a tile are listed by position 1..2; a polygon is the set of
\* (tile column, position) pairs it covers
PixelPositions == 1..2

Polygons ==
    { { <<c, i>> : c \in MeanCols, i \in PixelPositions },
      { <<0, i>> : i \in PixelPositions },
      { <<c, 2>> : c \in MeanCols } }

\* the two bands of the tile with key k: valid values, nodata and NaN in a mix that
\* depends on the key
MeanCells(k, no_data) ==
    LET patterns == << <<10, 20>>, <<no_data, 20>>, <<NaN, 10>>, <<no_data, no_data>> >>
        band1 == patterns[((k.col + k.instant) % 4) + 1]
        band2 == patterns[((k.col + 2 * k.instant) % 4) + 1]
    IN <<band1, [ i \in PixelPositions |-> IF band2[i] \in {10, 20} THEN band2[i] + 1
                                           ELSE band2[i] ]>>

MeanLevels ==
    { { [key |-> k, tile |-> Tile(MeanCells(k, nd), FLOAT32, nd)] : k \in ks } :
        ks \in { q \in SUBSET MeanKeys : Cardinality(q) <= MaxMeanTiles },
        nd \in NoDataValues }

\* max_level.mask(reprojected_polygon): cells outside the polygon become nodata
mask(tiles, polygon) ==
    { [ t EXCEPT !.tile.cells =
            [ b \in DOMAIN @ |->
                [ i \in DOMAIN @[b] |->
                    IF <<t.key.col, i>> \in polygon THEN @[b][i]
                    ELSE t.tile.no_data_value ] ] ] : t \in tiles }

\* without_no_data = (~np.isnan(grid)) & (grid != no_data)
without_no_data(grid, no_data) ==
    { i \in DOMAIN grid : ~isnan(grid[i]) /\ grid[i] # no_data }

RECURSIVE GridSum(_, _)
GridSum(grid, positions) ==
    IF positions = {} THEN 0
    ELSE LET i == CHOOSE i \in positions : TRUE
         IN grid[i] + GridSum(grid, positions \ {i})

\* combine_cells(acc, tile): the valid cells of every band are added to the band's
\* (sum, count); an empty accumulator starts as [(0, 0)] * n_bands
combine_cells(acc, tile, no_data) ==
    LET n_bands == Len(tile.cells)
        acc0 == IF acc = <<>> THEN [ i \in 1..n_bands |-> <<0, 0>> ] ELSE acc
    IN [ i \in DOMAIN acc0 |->
           IF i <= n_bands
           THEN LET valid == without_no_data(tile.cells[i], no_data)
                IN <<acc0[i][1] + GridSum(tile.cells[i], valid),
                     acc0[i][2] + Cardinality(valid)>>
           ELSE acc0[i] ]

\* combine_values that keeps only the first accumulator
combine_values_first(l1, l2) == l1

\* combine_values(l1, l2): the (sum, count) of l2 are added to those of l1 per band
combine_values(l1, l2) ==
    [ i \in DOMAIN l1 |->
        IF i <= Len(l2) THEN <<l1[i][1] + l2[i][1], l1[i][2] + l2[i][2]>> ELSE l1[i] ]

\* the accumulator of a task that folds the tiles in the given order
RECURSIVE FoldCells(_, _, _)
FoldCells(acc, tile_list, no_data) ==
    IF tile_list = <<>> THEN acc
    ELSE FoldCells(combine_cells(acc, Head(tile_list).tile, no_data), Tail(tile_list), no_data)

RECURSIVE GCD(_, _)
GCD(a, b) == IF b = 0 THEN a ELSE GCD(b, a % b)

\* the quotient sum / count as a fraction in lowest terms; 0 / 0 is nan
NanMean == <<0, 0>>

to_mean(values) ==
    LET sum == values[1]
        count == values[2]
    IN IF count = 0 THEN NanMean
       ELSE <<sum \div GCD(sum, count), count \div GCD(sum, count)>>

MeanIdle == mode.op = "none"

\* polygonal_mean_timeseries(polygon) up to aggregateByKey: the level is masked, the
\* tiles are keyed by instant; the tiles of an instant in a partition are one task
PolygonalMeanTimeseries(polygon) ==
    /\ MeanIdle
    /\ \E partition \in [ level -> Partitions ] :
        LET masked_layer == mask(level, polygon)
            masked(t) == CHOOSE m \in masked_layer : m.key = t.key
        IN /\ pending' =
            { task \in
                { [ key |-> i, partition |-> p,
                    tiles |-> { masked(t) : t \in { u \in level : u.key.instant = i
                                                       /\ partition[u] = p } },
                    acc |-> <<>> ] : i \in MeanInstants, p \in Partitions } :
                task.tiles # {} }
           /\ call' = [ op |-> "polygonal_mean_timeseries", polygon |-> polygon,
                        partition |-> partition ]
    /\ mode' = [ op |-> "polygonal_mean_timeseries", function |-> UdfNone ]
    /\ UNCHANGED <<cube, visitor, outcome, result, level, out, invocations, failure>>

\* a task folds the tiles of an instant in its partition, in the order they arrive,
\* into an accumulator that starts empty
CombineCells ==
    /\ mode.op = "polygonal_mean_timeseries"
    /\ \E task \in pending :
        \E arrival \in Orderings(task.tiles) :
            /\ pending' = pending \ {task}
            /\ invocations' = invocations \cup
                  { [ key |-> task.key, partition |-> task.partition,
                      acc |-> FoldCells(task.acc, arrival,
                                        cube.pyramid[0].layer_metadata.no_data_value) ] }
    /\ UNCHANGED <<dispatchVars, level, mode, out, failure>>

\* two accumulators of the same instant are merged, in either order
CombineValues ==
    /\ mode.op = "polygonal_mean_timeseries"
    /\ \E l1 \in invocations : \E l2 \in invocations \ {l1} :
        /\ l1.key = l2.key
        /\ invocations' = (invocations \ {l1, l2}) \cup
              { [ l1 EXCEPT !.acc = combine_values(l1.acc, l2.acc) ] }
    /\ UNCHANGED <<dispatchVars, level, mode, pending, out, failure>>

\* collect() and the dictionary of means: one entry per instant
CollectMeans ==
    /\ mode.op = "polygonal_mean_timeseries"
    /\ pending = {}
    /\ \A l1 \in invocations : \A l2 \in invocations : l1.key = l2.key => l1 = l2
    /\ result' = { [ timestamp |-> l.key,
                     means |-> [ i \in DOMAIN l.acc |-> to_mean(l.acc[i]) ] ] :
                   l \in invocations }
    /\ mode' = [ mode EXCEPT !.op = "returned" ]
    /\ UNCHANGED <<cube, visitor, call, outcome, level, pending, out, invocations, failure>>

\* the caller drops the result; the collection can be aggregated again
MeanDone ==
    /\ mode.op = "returned"
    /\ mode' = NoMode
    /\ call' = NoCall
    /\ result' = {}
    /\ invocations' = {}
    /\ UNCHANGED <<cube, visitor, outcome, level, pending, out, failure>>

InitMean ==
    /\ \E nd \in NoDataValues :
        /\ cube = StitchCube(SPACETIME,
                             LayerMetadata(LayoutDefinition(
                                 [ layoutCols |-> 3, layoutRows |-> 1,
                                   tileCols |-> 2, tileRows |-> 1 ], 0, 0),
                                 KeyBounds(0, 0, 2, 0), nd), "t", 2)
        /\ level \in { l \in MeanLevels : \A t \in l : t.tile.no_data_value = nd }
    /\ visitor = NoVisitor
    /\ call = NoCall
    /\ outcome = NoOutcome
    /\ result = {}
    /\ mode = NoMode
    /\ pending = {}
    /\ out = {}
    /\ invocations = {}
    /\ failure = ""

NextMean ==
    \/ \E polygon \in Polygons : PolygonalMeanTimeseries(polygon)
    \/ CombineCells
    \/ CombineValues
    \/ CollectMeans
    \/ MeanDone

SpecMean == InitMean /\ [][NextMean]_vars
-----------------------------------------------------------------------------
(* Properties of polygonal_mean_timeseries *)

MeanReturned == mode.op = "returned" /\ call.op = "polygonal_mean_timeseries"

\* the pixels of band b at instant i that lie inside the polygon and are neither nodata
\* nor NaN, as (tile column, position, value)
ValidPixels(i, b) ==
    { <<t.key.col, pos, t.tile.cells[b][pos]>> :
        <<t, pos>> \in { q \in level \X PixelPositions :
                           /\ q[1].key.instant = i
                           /\ <<q[1].key.col, q[2]>> \in call.polygon
                           /\ ~isnan(q[1].tile.cells[b][q[2]])
                           /\ q[1].tile.cells[b][q[2]] # q[1].tile.no_data_value } }

RECURSIVE SumOfValues(_)
SumOfValues(pixels) ==
    IF pixels = {} THEN 0
    ELSE LET px == CHOOSE px \in pixels : TRUE
         IN px[3] + SumOfValues(pixels \ {px})

-----------------------------------------------------------------------------
(* Key uniqueness in the UDF pipeline *)

\* no two tiles of the set share a key
UniqueKeys(tiles) == \A a \in tiles : \A b \in tiles : a.key = b.key => a = b

\* C24: if no two tiles of the input level share a key, no two tiles produced by
\* apply_tiles or by apply_tiles_spatiotemporal share a key, whether the user result
\* keeps a time axis (distinct or repeated labels) or drops it
C24_UdfKeepsKeysUnique ==
    (mode.op \in {"apply_tiles", "apply_tiles_spatiotemporal"} /\ UniqueKeys(level))
        => UniqueKeys(out)

\* a group of several tiles whose user result labels every time step alike has been
\* turned into output tiles, next to the output of another group
C24_Witness ==
    /\ mode.op = "apply_tiles_spatiotemporal"
    /\ UniqueKeys(level)
    /\ \E i \in invocations :
        /\ Len(i.arrival) > 1
        /\ ~i.result.raises
        /\ Len(i.result.cubes) = 1
        /\ Len(i.result.cubes[1].t) > 1
        /\ \A n \in DOMAIN i.result.cubes[1].t : i.result.cubes[1].t[n] = i.result.cubes[1].t[1]
    /\ \E a \in out : \E b \in out : a.key.col # b.key.col
-----------------------------------------------------------------------------
(* Properties of the stitched window *)

\* the window cell idx lies in the pixel range iwin of a merged block
Covers(win, idx) ==
    /\ StitchCrop[1] + idx[2] \in win[1]..(win[1] + win[3] - 1)
    /\ StitchCrop[2] + idx[3] \in win[2]..(win[2] + win[4] - 1)

\* C26: in a stitched window every pixel that no merged tile of the group covers holds
\* the level's nodata value, whatever that value is (0 included), and every pixel that
\* a tile covers holds a value of that tile
C26_UncoveredPixelsHoldNodata ==
    \A st \in out : \A idx \in DOMAIN st.window.cells :
        LET covering == { blk \in st.merged : Covers(blk.iwin, idx) }
        IN IF covering = {}
           THEN st.window.cells[idx] = Filled(StitchRdd.layer_metadata.no_data_value)
           ELSE \E blk \in covering : FromTile(st.window.cells[idx], blk.key)

\* C26 restricted to levels whose nodata value is not 0
C26_NonzeroNodata ==
    StitchRdd.layer_metadata.no_data_value # 0 => C26_UncoveredPixelsHoldNodata

\* C27: with no crop box, the window derived from the key bounds contains the pixel
\* range of every tile of the level, for every layout and key bounds (bounds over part
\* of the layout's rows included): every cell of every merged tile is in the window
C27_WindowHoldsEveryTile ==
    \A st \in out : \A blk \in st.merged :
        \A b \in 0..(st.window.shape[1] - 1) :
            \A r \in 0..(StitchLayout.tileRows - 1) : \A c \in 0..(StitchLayout.tileCols - 1) :
                \E idx \in DOMAIN st.window.cells :
                    st.window.cells[idx] = Pixel(blk.key, b, r, c)

\* the key bounds span every row of the layout
AllRows ==
    /\ StitchRdd.layer_metadata.bounds.minKey.row = 0
    /\ StitchRdd.layer_metadata.bounds.maxKey.row = StitchLayout.layoutRows - 1

SquareTiles == StitchLayout.tileCols = StitchLayout.tileRows

\* C27 restricted to square tiles and key bounds over all rows
C27_SquareAllRows == (SquareTiles /\ AllRows) => C27_WindowHoldsEveryTile

\* C27 restricted to square tiles only
C27_Square == SquareTiles => C27_WindowHoldsEveryTile
-----------------------------------------------------------------------------
(* The grouping operations together: a collection is either grouped by spatial key for
   apply_tiles_spatiotemporal or grouped by date for stitching *)

\* the collection carries the layer metadata that stitching reads
IsStitchInput == "layer_metadata" \in DOMAIN cube.pyramid[0]

InitGroups == InitUdf \/ InitStitch

NextGroups ==
    \/ ~IsStitchInput /\ \E function \in UdfFunctions : ApplyTilesSpatiotemporal(function)
    \/ ~IsStitchInput /\ TileFunctionGrouped
    \/ ~IsStitchInput /\ UdfDone
    \/ IsStitchInput /\ NextStitch

SpecGroups == InitGroups /\ [][NextGroups]_vars

\* the tiles of a set as the sequence in ascending order of instant
RECURSIVE AscendingByInstant(_)
AscendingByInstant(tiles) ==
    IF tiles = {} THEN <<>>
    ELSE LET first == CHOOSE t \in tiles : \A u \in tiles : t.key.instant <= u.key.instant
         IN <<first>> \o AscendingByInstant(tiles \ {first})

\* the tiles of the level that the date filter of the current call lets through and
\* that carry the date d
TilesOfDate(d) ==
    { t \in filter_dates(level, has_temporal_dimension(cube.metadata), call.crop_dates) :
        (IF has_temporal_dimension(cube.metadata) THEN t.key.instant ELSE NoDate) = d }

\* grouped mode: user code runs on all tiles of its spatial key at once, and the cube
\* it receives and the tiles made of its result do not depend on the arrival order
GroupedIsOrderFree ==
    (mode.op = "apply_tiles_spatiotemporal") =>
        \A i \in invocations :
            LET group == TilesOfGroup(i.input)
                stack == AscendingByInstant(group)
                r == apply_tiles_spatiotemporal_tilefunction(
                         [key |-> i.input, tiles |-> stack], i.result)
            IN /\ { i.arrival[n] : n \in DOMAIN i.arrival } = group
               /\ i.datacube.array = [ n \in DOMAIN stack |-> stack[n].tile.cells ]
               /\ i.datacube.t = [ n \in DOMAIN stack |-> stack[n].key.instant ]
               /\ { o \in out : SpatialKey(o.key.col, o.key.row) = i.input } = r.tiles

\* stitching: a window is stitched from all tiles of its date, blocks of different
\* tiles do not overlap, and every cell is what merging its own block alone into the
\* allocated window gives
StitchIsOrderFree ==
    (mode.op = "_collect_as_xarray") =>
        /\ \A st \in invocations :
              { t.key : t \in st.subarrs } \cup { blk.key : blk \in st.merged }
                  = { t.key : t \in TilesOfDate(st.key) }
        /\ \A st \in out :
              /\ { blk.key : blk \in st.merged } = { t.key : t \in TilesOfDate(st.key) }
              /\ \A idx \in DOMAIN st.window.cells :
                    LET covering == { blk \in st.merged : Covers(blk.iwin, idx) }
                    IN /\ Cardinality(covering) <= 1
                       /\ covering = {} => st.window.cells[idx] = st.allocated[idx]
                       /\ \A blk \in covering :
                            \E t \in TilesOfDate(st.key) :
                                /\ t.key = blk.key
                                /\ st.window.cells[idx] =
                                     merge_block([ st.window EXCEPT !.cells = st.allocated ],
                                                 StitchCrop, layout_win(StitchLayout),
                                                 t).cells[idx]

C25_StitchWitness ==
    /\ mode.op = "_collect_as_xarray"
    /\ \E st \in out : Cardinality(st.merged) > 2
-----------------------------------------------------------------------------
(* The reducer object across reduce_dimension *)

\* C28: reduce_dimension leaves the reducer visitor passed to it unchanged: a call with
\* the caller's built-in reducer visitor does not alter that object, and the same call
\* repeated with the same object takes the same path to the same outcome
C28_ReducerLeftUnchanged ==
    [][ (/\ Idle
         /\ call'.op = "reduce_dimension"
         /\ call'.reducer = visitor
         /\ visitor.kind = "tile")
            => /\ visitor' = visitor
               /\ LET again == reduce_dimension(cube, call'.dimension, visitor')
                  IN /\ again.err = outcome'.err
                     /\ again.trace = outcome'.trace ]_vars

\* C28 restricted to calls that reduce the band dimension
C28_BandDimension ==
    [][ (/\ Idle
         /\ call'.op = "reduce_dimension"
         /\ call'.reducer = visitor
         /\ visitor.kind = "tile"
         /\ has_band_dimension(cube.metadata)
         /\ call'.dimension = cube.metadata.band)
            => visitor' = visitor ]_vars
-----------------------------------------------------------------------------
(* Cubes with a band list: merge and ndvi *)

\* a band list holds at most MaxBandCount bands before any merge
MaxBandCount == 2

\* Band(name, common_name): '' is a band without common name
Band(name, common_name) == [ name |-> name, common_name |-> common_name ]

BandNames == {"B04", "B08", "red"}
CommonNames == {"", "red", "nir"}

UniqueNames(bands) ==
    \A i \in DOMAIN bands : \A j \in DOMAIN bands : bands[i].name = bands[j].name => i = j

\* the band lists of a metadata object: band names are unique within a cube
BandLists ==
    { bands \in UNION { [ 1..n -> [ name : BandNames, common_name : CommonNames ] ] :
                          n \in 0..MaxBandCount } : UniqueNames(bands) }

\* metadata.band_names
band_names(md) == [ i \in DOMAIN md.bands |-> md.bands[i].name ]

\* metadata.append_band(band): a new metadata object with the band at the end
append_band(md, band) == [ md EXCEPT !.bands = Append(@, band) ]

\* CollectionMetadata with a band list; without band dimension the list is empty
BandMetadata(bands, has_bands) ==
    [ temporal |-> "t", band |-> IF has_bands THEN "bands" ELSE NoDim,
      spatial |-> <<"x", "y">>, bands |-> IF has_bands THEN bands ELSE <<>> ]

BandCubes ==
    { [ id |-> SelfId, pyramid |-> pyr, metadata |-> BandMetadata(bands, has_bands) ] :
        pyr \in Pyramids, bands \in BandLists, has_bands \in BOOLEAN }

\* the cubes a receiver is merged with: bands without common names
OtherCubes ==
    { c \in BandCubes : \A i \in DOMAIN c.metadata.bands : c.metadata.bands[i].common_name = "" }

\* a band loop that appends every band of the other cube
append_all_bands(md, bands) ==
    [ md EXCEPT !.bands = @ \o bands ]

\* for iband in other.metadata.bands:
\*     if iband.name not in merged_data.metadata.band_names: ...append_band(iband)
RECURSIVE append_new_bands(_, _)
append_new_bands(md, bands) ==
    IF bands = <<>> THEN md
    ELSE append_new_bands(
            IF \E i \in DOMAIN md.bands : md.bands[i].name = Head(bands).name
            THEN md ELSE append_band(md, Head(bands)),
            Tail(bands))

\* merge(other, overlaps_resolver)
merge(self, other, overlaps_resolver) ==
    IF has_band_dimension(self.metadata) # has_band_dimension(other.metadata)
    THEN Raise("InternalException", <<>>)
    ELSE IF _is_spatial(self) /\ _is_spatial(other)
    THEN Raise("FeatureUnsupportedException", <<>>)
    ELSE IF \E k \in DOMAIN self.pyramid : k \notin DOMAIN other.pyramid
    THEN Raise("KeyError", <<>>)
    ELSE LET op == IF _is_spatial(self) \/ _is_spatial(other)
                   THEN "mergeCubes_SpaceTime_Spatial" ELSE "mergeCubes"
             merged_data == apply_to_levels(self, SameType, SameTiling)
             trace == LevelOps(self.pyramid, <<op>>, overlaps_resolver, NoWindow)
         IN IF has_band_dimension(self.metadata) /\ has_band_dimension(other.metadata)
            THEN Out("", { [ merged_data EXCEPT
                               !.metadata = append_new_bands(@, other.metadata.bands) ] },
                     trace)
            ELSE Out("", { merged_data }, trace)
\* the index first_index_if returns when no predicate matches (Python None)
NoIndex == 0 - 1

\* the 0-based indices of the bands with a given name / common name, ascending
IndicesByName(bands, name) == { i - 1 : i \in { j \in DOMAIN bands : bands[j].name = name } }
IndicesByCommonName(bands, name) ==
    { i - 1 : i \in { j \in DOMAIN bands : bands[j].common_name = name } }

Lowest(indices) == CHOOSE i \in indices : \A j \in indices : i <= j

\* a lookup that tries the common name before the name
first_index_common_name_first(bands, name) ==
    IF IndicesByCommonName(bands, name) # {} THEN Lowest(IndicesByCommonName(bands, name))
    ELSE IF IndicesByName(bands, name) # {} THEN Lowest(IndicesByName(bands, name))
    ELSE NoIndex

\* first_index_if(bands, lambda b: b.name == name, lambda b: b.common_name == name)
first_index_name_then_common_name(bands, name) ==
    IF IndicesByName(bands, name) # {} THEN Lowest(IndicesByName(bands, name))
    ELSE IF IndicesByCommonName(bands, name) # {} THEN Lowest(IndicesByCommonName(bands, name))
    ELSE NoIndex

\* first_index_if(bands, lambda b: b.common_name == 'red')
first_index_common_name(bands, name) ==
    IF IndicesByCommonName(bands, name) # {} THEN Lowest(IndicesByCommonName(bands, name))
    ELSE NoIndex

\* the band index _ndvi_v10 resolves for red or nir: given is the keyword value ('' is
\* None), default the common name looked for when no name is given
resolve_band(bands, given, default) ==
    IF given = "" THEN first_index_common_name(bands, default)
    ELSE first_index_name_then_common_name(bands, given)

\* _ndvi_collection(red_index, nir_index): reduce_bands with the ndvi process graph
_ndvi_collection(self, red_index, nir_index) ==
    Out("", { apply_to_levels(self, SameType, SameTiling) },
        LevelOps(self.pyramid, <<"convert_data_type">>, NoName, NoWindow)
            \o LevelOps(self.pyramid, <<"map_bands">>, NoName, <<red_index, nir_index>>))

\* the keyword arguments of an ndvi call: has_target_band is 'target_band' in kwargs,
\* a value '' is a keyword that is absent or None
NdviKwargs ==
    [ has_target_band : {TRUE}, target_band : {"", "ndvi", "B04"},
      red : {"", "B04", "red", "B12"}, nir : {"", "B08", "nir"}, name : {""} ]
    \cup
    [ has_target_band : {FALSE}, target_band : {""},
      red : {"", "B04"}, nir : {""}, name : {"", "ndvi"} ]

\* _ndvi_v04(name): exactly one band with common name 'red' and one with 'nir'
_ndvi_v04(self, kwargs) ==
    IF kwargs.red # "" \/ kwargs.nir # "" THEN Raise("TypeError", <<>>)
    ELSE LET reds == IndicesByCommonName(self.metadata.bands, "red")
             nirs == IndicesByCommonName(self.metadata.bands, "nir")
         IN IF Cardinality(reds) # 1 \/ Cardinality(nirs) # 1
            THEN Raise("ValueError", <<>>)
            ELSE LET ndvi_collection ==
                        _ndvi_collection(self, Lowest(reds), Lowest(nirs))
                     label == IF kwargs.name # "" THEN kwargs.name ELSE "ndvi"
                     ndvi_metadata ==
                        [ self.metadata EXCEPT !.band = "bands",
                                               !.bands = <<Band(label, "")>> ]
                 IN Out("", { [ c EXCEPT !.metadata = ndvi_metadata ] :
                                c \in ndvi_collection.result },
                        ndvi_collection.trace)

\* _ndvi_v10(nir, red, target_band)
_ndvi_v10(self, kwargs) ==
    LET bands == self.metadata.bands
        red_index == resolve_band(bands, kwargs.red, "red")
        nir_index == resolve_band(bands, kwargs.nir, "nir")
    IN IF kwargs.name # "" THEN Raise("TypeError", <<>>)
       ELSE IF ~has_band_dimension(self.metadata) THEN Raise("DimensionAmbiguous", <<>>)
       ELSE IF kwargs.target_band # ""
               /\ \E i \in DOMAIN bands : bands[i].name = kwargs.target_band
       THEN Raise("BandExists", <<>>)
       ELSE IF red_index = NoIndex THEN Raise("RedBandAmbiguous", <<>>)
       ELSE IF nir_index = NoIndex THEN Raise("NirBandAmbiguous", <<>>)
       ELSE LET ndvi_collection == _ndvi_collection(self, red_index, nir_index)
                ndvi_cube == CHOOSE c \in ndvi_collection.result : TRUE
            IN IF kwargs.target_band # ""
               THEN LET float_cube == apply_to_levels(self, SameType, SameTiling)
                        merged == merge(float_cube, ndvi_cube, NoName)
                        trace == ndvi_collection.trace
                                   \o LevelOps(self.pyramid, <<"convert_data_type">>,
                                               NoName, NoWindow)
                                   \o merged.trace
                    IN IF merged.err # "" THEN Raise(merged.err, trace)
                       ELSE Out("", { [ c EXCEPT !.metadata =
                                          append_band(self.metadata,
                                                      Band(kwargs.target_band,
                                                           kwargs.target_band)) ] :
                                      c \in merged.result },
                                trace)
               ELSE Out("", { [ ndvi_cube EXCEPT
                                  !.metadata = [ self.metadata EXCEPT !.band = NoDim,
                                                                      !.bands = <<>> ] ] },
                        ndvi_collection.trace)

\* ndvi(**kwargs)
ndvi(self, kwargs) ==
    IF kwargs.has_target_band THEN _ndvi_v10(self, kwargs) ELSE _ndvi_v04(self, kwargs)

OverlapsResolvers == {NoName, <<"s", "u", "m">>}

\* merge(other, overlaps_resolver) on the cube
Merge(other, overlaps_resolver) ==
    /\ call' = [ op |-> "merge", self |-> {cube}, other |-> other,
                 overlaps_resolver |-> overlaps_resolver ]
    /\ LET o == merge(cube, other, overlaps_resolver)
       IN /\ outcome' = [ err |-> o.err, trace |-> o.trace, reducer |-> NoVisitor ]
          /\ result' = o.result
    /\ UNCHANGED <<cube, visitor, udfVars>>

\* ndvi(**kwargs) on the cube
Ndvi(kwargs) ==
    /\ call' = [ op |-> "ndvi", self |-> {cube}, kwargs |-> kwargs ]
    /\ LET o == ndvi(cube, kwargs)
       IN /\ outcome' = [ err |-> o.err, trace |-> o.trace, reducer |-> NoVisitor ]
          /\ result' = o.result
    /\ UNCHANGED <<cube, visitor, udfVars>>

InitBands ==
    /\ cube \in BandCubes
    /\ visitor = NoVisitor
    /\ call = NoCall
    /\ outcome = NoOutcome
    /\ result = {}
    /\ UdfIdle

NextBands ==
    \/ /\ Idle
       /\ \E other \in OtherCubes, overlaps_resolver \in OverlapsResolvers :
             Merge(other, overlaps_resolver)
    \/ /\ Idle
       /\ \E kwargs \in NdviKwargs : Ndvi(kwargs)
    \/ Adopt
    \/ Discard

SpecBands == InitBands /\ [][NextBands]_vars
------------------------------------------------------------------------------
\* Properties of merge

MergeReturned == call # NoCall /\ call.op = "merge"

BothHaveBands ==
    has_band_dimension(Receiver.metadata) /\ has_band_dimension(call.other.metadata)

BothSpatial == _is_spatial(Receiver) /\ _is_spatial(call.other)

\* the other cube has a level for every level index of the receiver
LevelsAligned == \A k \in DOMAIN Receiver.pyramid : k \in DOMAIN call.other.pyramid

NamesOf(bands) == { bands[i].name : i \in DOMAIN bands }

NotYetPresent(receiver_bands, other_bands) ==
    LET absent(b) == b.name \notin NamesOf(receiver_bands)
    IN SelectSeq(other_bands, absent)

C21_FailureWitness ==
    /\ MergeReturned
    /\ BothSpatial
    /\ BothHaveBands
    /\ outcome.err = "FeatureUnsupportedException"
------------------------------------------------------------------------------
\* Properties of ndvi

NdviReturned == call # NoCall /\ call.op = "ndvi"

\* the first band (0-based) whose name, resp. common name, equals the given one
FirstNamed(bands, name) ==
    IF \E i \in DOMAIN bands : bands[i].name = name
    THEN (CHOOSE i \in DOMAIN bands :
            /\ bands[i].name = name
            /\ \A j \in 1..(i - 1) : bands[j].name # name) - 1
    ELSE NoIndex

FirstCommonlyNamed(bands, name) ==
    IF \E i \in DOMAIN bands : bands[i].common_name = name
    THEN (CHOOSE i \in DOMAIN bands :
            /\ bands[i].common_name = name
            /\ \A j \in 1..(i - 1) : bands[j].common_name # name) - 1
    ELSE NoIndex

\* the fallback order: an explicit name by name, then by common name; no name by the
\* default common name
FallbackOrder(bands, given, default) ==
    IF given = "" THEN FirstCommonlyNamed(bands, default)
    ELSE IF FirstNamed(bands, given) # NoIndex THEN FirstNamed(bands, given)
    ELSE FirstCommonlyNamed(bands, given)

AmbiguousBand == {"RedBandAmbiguous", "NirBandAmbiguous"}

\* the band computations a call started: the (red, nir) index pairs handed to map_bands
BandComputations ==
    { outcome.trace[i].window :
        i \in { j \in DOMAIN outcome.trace : outcome.trace[j].op = "map_bands" } }

\* the call is on a cube with a band dimension and its target band, if any, is new
NdviOnBands ==
    /\ NdviReturned
    /\ has_band_dimension(Receiver.metadata)
    /\ call.kwargs.target_band \notin NamesOf(Receiver.metadata.bands)

ResolvedInFallbackOrder ==
    LET bands == Receiver.metadata.bands
        red_index == FallbackOrder(bands, call.kwargs.red, "red")
        nir_index == FallbackOrder(bands, call.kwargs.nir, "nir")
    IN IF red_index = NoIndex \/ nir_index = NoIndex
       THEN outcome.err \in AmbiguousBand /\ outcome.trace = <<>> /\ result = {}
       ELSE BandComputations = { <<red_index, nir_index>> }

\* every call of ndvi, with or without the target_band keyword, resolves red and nir in
\* the fallback order and fails with an AmbiguousBand error when one cannot be resolved
C22_EveryCallResolvesInFallbackOrder == NdviOnBands => ResolvedInFallbackOrder

\* C22: a call of ndvi that passes the target_band keyword (its value may be None), on a
\* cube with a band dimension that does not yet hold the target band, resolves red and
\* nir in the fallback order: an explicit name selects the first band with that name,
\* otherwise the first band with that common name; no name selects the first band whose
\* common name is 'red' (resp. 'nir'); an unresolved band fails the call with an
\* AmbiguousBand error before any band computation is started.
C22_TargetBandCallsResolveInFallbackOrder ==
    (NdviOnBands /\ call.kwargs.has_target_band) => ResolvedInFallbackOrder

\* an explicit red name that is the name of one band and the common name of an earlier one
C22_Witness ==
    /\ NdviOnBands
    /\ call.kwargs.has_target_band
    /\ call.kwargs.red # ""
    /\ outcome.err = ""
    /\ LET bands == Receiver.metadata.bands
       IN /\ FirstNamed(bands, call.kwargs.red) # NoIndex
          /\ FirstCommonlyNamed(bands, call.kwargs.red) # NoIndex
          /\ FirstCommonlyNamed(bands, call.kwargs.red) < FirstNamed(bands, call.kwargs.red)

\* a call with the target_band keyword whose nir band cannot be resolved
C22_AmbiguousWitness ==
    /\ NdviOnBands
    /\ call.kwargs.has_target_band
    /\ outcome.err = "NirBandAmbiguous"

\* a call without the target_band keyword on a cube without a 'red' band
C22_LegacyWitness ==
    /\ NdviOnBands
    /\ ~call.kwargs.has_target_band
    /\ outcome.err = "ValueError"
------------------------------------------------------------------------------
(* The cube transforms *)

\* the process handed to apply: a process graph dict, a callback visitor or a process name
ApplyProcesses ==
    { [ kind |-> "dict", graph |-> g, visitor |-> NoVisitor, name |-> NoName ] :
        g \in Graphs }
    \cup { [ kind |-> "visitor", graph |-> NoGraph, visitor |-> v, name |-> NoName ] :
             v \in Visitors }
    \cup { [ kind |-> "str", graph |-> NoGraph, visitor |-> NoVisitor, name |-> p ] :
             p \in {P_add} }

\* the keys of the arguments dict of apply
ApplyArguments == { {}, {"y"} }

\* apply(process, arguments)
apply(self, process, arguments) ==
    IF process.kind = "dict"
    THEN LET apply_callback == accept_process_graph(process.graph)
         IN IF apply_callback.kind = "udf"
            \* mapBands is handed pgVisitor.builder, which a run_udf visitor lacks
            THEN Raise("AttributeError",
                       LevelOps(self.pyramid, <<"convert_data_type">>, NoName, NoWindow))
            ELSE reduce_bands(self, apply_callback)
    ELSE IF process.kind = "visitor"
    THEN IF process.visitor.kind = "udf"
         THEN IF ~process.visitor.udf.isstr THEN Raise("UdfNotString", <<>>)
              \* self.apply_tiles(udf, context): the collection it returns is dropped
              ELSE Out("", {}, apply_tiles_call(self, process.visitor.udf).trace)
         ELSE Out("", {}, <<>>)
    ELSE IF "y" \in arguments THEN Raise("NotImplementedError", <<>>)
    ELSE Out("", { apply_to_levels(self, SameType, SameTiling) },
             LevelOps(self.pyramid, <<"applyProcess">>, process.name, NoWindow))

\* a variant of apply that returns what apply_tiles returns
apply_returning(self, process, arguments) ==
    IF process.kind = "visitor" /\ process.visitor.kind = "udf" /\ process.visitor.udf.isstr
    THEN apply_tiles_call(self, process.visitor.udf)
    ELSE apply(self, process, arguments)

\* band_filter(bands)
band_filter(self) ==
    Out("", { apply_to_levels(self, SameType, SameTiling) },
        LevelOps(self.pyramid, <<"bands">>, NoName, NoWindow))

\* date_range_filter(start_date, end_date)
date_range_filter(self) ==
    Out("", { apply_to_levels(self, SameType, SameTiling) },
        LevelOps(self.pyramid, <<"filter_by_times">>, NoName, NoWindow))

\* mask(mask, replacement): every level of the mask is tiled to the layout of the
\* receiver's level of the same index, then each receiver level is masked
mask_cube(self, other) ==
    IF \E k \in DOMAIN other.pyramid : k \notin DOMAIN self.pyramid
    THEN Raise("KeyError", <<>>)
    ELSE LET tiled == LevelOps(other.pyramid, <<"tile_to_layout">>, NoName, NoWindow)
         IN IF \E k \in DOMAIN self.pyramid : k \notin DOMAIN other.pyramid
            THEN Raise("KeyError", tiled)
            ELSE Out("", { apply_to_levels(self, SameType, SameTiling) },
                     tiled \o LevelOps(self.pyramid, <<"rasterMask">>, NoName, NoWindow))

\* CollectionMetadata.rename_dimension: a new metadata object
md_rename_dimension(md, source, target) ==
    [ md EXCEPT !.temporal = IF @ = source THEN target ELSE @,
                !.band = IF @ = source THEN target ELSE @,
                !.spatial = [ i \in DOMAIN @ |-> IF @[i] = source THEN target ELSE @[i] ] ]

\* rename_dimension(source, target): a new collection on the receiver's pyramid
rename_dimension(self, source, target) ==
    Out("", { [ id |-> NewId, pyramid |-> self.pyramid,
                metadata |-> md_rename_dimension(self.metadata, source, target) ] }, <<>>)

\* CollectionMetadata.add_dimension: a new metadata object with a band or a temporal
\* dimension declared
md_add_dimension(md, name, type) ==
    IF type = "bands" THEN [ md EXCEPT !.band = name ]
    ELSE [ md EXCEPT !.temporal = name ]

\* add_dimension(name, label, type): a new collection on the receiver's pyramid
add_dimension(self, name, type) ==
    Out("", { [ id |-> NewId, pyramid |-> self.pyramid,
                metadata |-> md_add_dimension(self.metadata, name, type) ] }, <<>>)

\* a cube whose metadata lists its bands
HasBandList == "bands" \in DOMAIN cube.metadata

\* the state after a transform that takes no further argument of interest
Transformed(op, o) ==
    /\ call' = [ op |-> op, self |-> {cube} ]
    /\ outcome' = [ err |-> o.err, trace |-> o.trace, reducer |-> NoVisitor ]
    /\ result' = o.result
    /\ UNCHANGED <<cube, visitor, udfVars>>

Apply(process, arguments) ==
    /\ call' = [ op |-> "apply", self |-> {cube}, process |-> process,
                 arguments |-> arguments ]
    /\ LET o == apply(cube, process, arguments)
       IN /\ outcome' = [ err |-> o.err, trace |-> o.trace, reducer |-> NoVisitor ]
          /\ result' = o.result
    /\ UNCHANGED <<cube, visitor, udfVars>>

BandFilter == Transformed("band_filter", band_filter(cube))

DateRangeFilter == Transformed("date_range_filter", date_range_filter(cube))

Mask(other) == Transformed("mask", mask_cube(cube, other))

Reduce(reducer, dimension) == Transformed("reduce", reduce(cube, reducer, dimension))

ApplyTilesCall(function) == Transformed("apply_tiles", apply_tiles_call(cube, function))

ApplyTilesSpatiotemporalCall(function) ==
    Transformed("apply_tiles_spatiotemporal", apply_tiles_spatiotemporal_call(cube, function))

RenameDimension(source, target) ==
    Transformed("rename_dimension", rename_dimension(cube, source, target))

AddDimension(name, type) == Transformed("add_dimension", add_dimension(cube, name, type))

\* the cubes a transform is called on: without a band list, and with a list of bands
\* that all carry a common name
TransformCubes ==
    Collections
    \cup { c \in BandCubes :
             /\ has_band_dimension(c.metadata)
             /\ \A i \in DOMAIN c.metadata.bands : c.metadata.bands[i].common_name # "" }

\* the cube handed to mask
MaskCubes == { c \in Collections : c.metadata = [ temporal |-> "t", band |-> NoDim,
                                                 spatial |-> <<"x", "y">> ] }

\* the arguments used among the other transforms
TransformSizes == { s \in Sizes : DOMAIN s = {"x", "y"} }
TransformOverlaps == { o \in Overlaps : DOMAIN o = {"x"} }
TransformOthers ==
    { c \in OtherCubes : Len(c.metadata.bands) = 1 /\ c.metadata.bands[1].name = "B08" }
TransformKwargs == { k \in NdviKwargs : k.red = "" /\ k.nir = "" /\ k.name = "" }
TransformProcesses ==
    { p \in ApplyProcesses :
        /\ p.kind = "dict" => p.graph \in NeighborhoodGraphs
        /\ p.kind = "visitor" => p.visitor \in { accept_process_graph(g) :
                                                 g \in NeighborhoodGraphs } }

InitTransforms ==
    /\ cube \in TransformCubes
    /\ visitor = NoVisitor
    /\ call = NoCall
    /\ outcome = NoOutcome
    /\ result = {}
    /\ UdfIdle

NextTransforms ==
    \/ /\ Idle
       /\ \E process \in TransformProcesses, arguments \in ApplyArguments :
             Apply(process, arguments)
    \/ Idle /\ BandFilter
    \/ Idle /\ DateRangeFilter
    \/ /\ Idle
       /\ \E other \in MaskCubes : Mask(other)
    \/ /\ Idle /\ ~HasBandList
       /\ \E reducer \in {P_min, P_median}, dimension \in Dimensions :
             Reduce(reducer, dimension)
    \/ /\ Idle /\ ~HasBandList
       /\ \E dimension \in Dimensions, graph \in NeighborhoodGraphs :
             ReduceDimensionGraph(dimension, graph)
    \/ /\ Idle
       /\ \E function \in {UdfGood, UdfSyntaxError} : ApplyTilesCall(function)
    \/ /\ Idle
       /\ \E function \in {UdfGood, UdfSyntaxError} : ApplyTilesSpatiotemporalCall(function)
    \/ /\ Idle /\ HasBandList
       /\ \E other \in TransformOthers, overlaps_resolver \in OverlapsResolvers :
             Merge(other, overlaps_resolver)
    \/ /\ Idle /\ HasBandList
       /\ \E kwargs \in TransformKwargs : Ndvi(kwargs)
    \/ /\ Idle /\ ~HasBandList
       /\ \E process \in NeighborhoodGraphs, size \in TransformSizes,
             overlap \in TransformOverlaps :
             ApplyNeighborhood(process, size, overlap)
    \/ /\ Idle
       /\ \E source \in {"t", "x"}, target \in {"time"} : RenameDimension(source, target)
    \/ /\ Idle
       /\ \E d \in { <<"bands", "bands">>, <<"t", "temporal">> } : AddDimension(d[1], d[2])
    \/ Adopt
    \/ Discard

SpecTransforms == InitTransforms /\ [][NextTransforms]_vars
------------------------------------------------------------------------------
\* Properties of apply and of the transforms as a family

ApplyReturned == call # NoCall /\ call.op = "apply"

\* apply was handed a single run_udf callback visitor with a string udf
UdfCallback ==
    /\ call.process.kind = "visitor"
    /\ call.process.visitor.kind = "udf"
    /\ call.process.visitor.udf.isstr

\* C29: apply returns a result collection for every process it accepts: for a single
\* run_udf callback visitor the collection apply_tiles produces, and a collection for a
\* process graph dict and for a unary process name; a process name with a second operand
\* 'y' is rejected before any tile is processed.
C29_ApplyReturnsCollection ==
    ApplyReturned =>
        /\ UdfCallback =>
              /\ outcome.err = ""
              /\ result = apply_tiles_call(Receiver, call.process.visitor.udf).result
        /\ (call.process.kind \in {"dict", "str"} /\ outcome.err = "") =>
              Cardinality(result) = 1
        /\ (call.process.kind = "str" /\ "y" \in call.arguments) =>
              /\ outcome.err = "NotImplementedError"
              /\ outcome.trace = <<>>
              /\ result = {}

\* what holds of apply: a dict or a unary process name gives one new collection with a
\* level per level of the receiver, and a second operand is rejected up front
C29_DictAndNameReturnCollection ==
    (ApplyReturned /\ call.process.kind \in {"dict", "str"}) =>
        /\ outcome.err = "" =>
              /\ Cardinality(result) = 1
              /\ \A c \in result : DOMAIN c.pyramid = DOMAIN Receiver.pyramid
        /\ (call.process.kind = "str" /\ "y" \in call.arguments) =>
              outcome.err = "NotImplementedError" /\ outcome.trace = <<>>

\* the per-tile path ran for a run_udf callback, and apply returned nothing
C29_UdfResultDropped ==
    /\ ApplyReturned
    /\ UdfCallback
    /\ outcome.err = ""
    /\ outcome.trace = apply_tiles_call(Receiver, call.process.visitor.udf).trace
    /\ result = {}

\* the level indices some store operation of the call worked on
RebuiltLevels == { outcome.trace[i].level : i \in DOMAIN outcome.trace }

\* the call returned a new collection with one rebuilt level per level of the receiver
ReturnsRebuiltPyramid ==
    /\ Cardinality(result) = 1
    /\ \A c \in result :
          /\ c.id = NewId
          /\ DOMAIN c.pyramid = DOMAIN Receiver.pyramid
          /\ DOMAIN Receiver.pyramid \subseteq RebuiltLevels

\* C23: every cube transform that completes returns a new collection whose pyramid has
\* one rebuilt level for each level index of the receiver, and leaves the receiver's
\* pyramid and metadata unchanged, after any sequence of transforms.
C23_TransformsRebuildAndPreserve ==
    ~Idle =>
        /\ cube = Receiver
        /\ outcome.err = "" => ReturnsRebuiltPyramid

\* the frame half of C23: no transform changes the receiver's pyramid or metadata
C23_ReceiverUnchanged == ~Idle => cube = Receiver

\* the transforms that hand back nothing: apply with a callback visitor, and
\* reduce_dimension with a run_udf reducer on an undeclared dimension
ReturnsNothing ==
    \/ call.op = "apply" /\ call.process.kind = "visitor"
    \/ /\ call.op = "reduce_dimension"
       /\ call.reducer.kind = "udf"
       /\ call.dimension \notin {Receiver.metadata.temporal, Receiver.metadata.band}

\* the transforms that only replace the metadata
MetadataOnly == call.op \in {"rename_dimension", "add_dimension"}

\* the result half of C23 for the other transforms
C23_OtherTransformsRebuild ==
    (~Idle /\ outcome.err = "" /\ ~ReturnsNothing /\ ~MetadataOnly) => ReturnsRebuiltPyramid

\* rename_dimension and add_dimension return a new collection on the receiver's pyramid
C23_MetadataOnlyShare ==
    (~Idle /\ MetadataOnly) =>
        /\ outcome.err = "" /\ outcome.trace = <<>>
        /\ \A c \in result : c.id = NewId /\ c.pyramid = Receiver.pyramid
------------------------------------------------------------------------------
(* JobTracker.update_statuses: the tracking loop over the running jobs.
   In this specification `out` holds the job registry, `invocations` what YARN reports
   per application, `pending` the jobs of the current iteration that are still to be
   visited, `call` the position of the loop and `failure` the exception the current
   iteration printed. *)

\* the number of tracked jobs
MaxJobs == 2

\* the Kerberos ticket is refreshed every 60th iteration
RefreshEvery == 60

JobIds == 1..MaxJobs

\* job['application_id'] of a job that was not submitted yet (None)
NoApplication == 0

\* what `yarn application -status` gives for an application: a report with State and
\* Final-State, the message that the application is unknown, or another failure
YarnReport(state, final_state) ==
    [ kind |-> "report", state |-> state, final_state |-> final_state ]
YarnUnknown == [ kind |-> "unknown", state |-> "", final_state |-> "" ]
YarnFailing == [ kind |-> "failing", state |-> "", final_state |-> "" ]

YarnReports ==
    { YarnReport("ACCEPTED", "UNDEFINED"), YarnReport("RUNNING", "UNDEFINED"),
      YarnReport("FINISHED", "SUCCEEDED"), YarnReport("FINISHED", "FAILED"),
      YarnReport("KILLED", "KILLED"), YarnUnknown, YarnFailing }

\* _to_openeo_status(state, final_state)
_to_openeo_status(state, final_state) ==
    IF final_state = "KILLED" THEN "canceled"
    ELSE IF final_state = "SUCCEEDED" THEN "finished"
    ELSE IF final_state = "FAILED" THEN "error"
    ELSE IF state = "ACCEPTED" THEN "queued"
    ELSE IF state = "RUNNING" THEN "running"
    ELSE "submitted"

\* the registry: per job its application id, its status and whether it is marked done
JobInfos ==
    [ application_id : {NoApplication} \cup JobIds, status : {"created", "queued", "running"},
      done : {FALSE} ]

\* registry.get_running_jobs(): the jobs not marked done, in any order
running_jobs(registry) == { j \in JobIds : ~registry[j].done }

Orders(S) ==
    { order \in [ 1..Cardinality(S) -> S ] :
        \A a, b \in 1..Cardinality(S) : order[a] = order[b] => a = b }

get_running_jobs(registry) ==
    { [ i \in DOMAIN order |->
          [ job_id |-> order[i], application_id |-> registry[order[i]].application_id,
            status |-> registry[order[i]].status ] ] :
      order \in Orders(running_jobs(registry)) }

\* registry.update(job_id, status=new_status)
update(registry, job_id, new_status) == [ registry EXCEPT ![job_id].status = new_status ]

\* registry.mark_done(job_id)
mark_done(registry, job_id) == [ registry EXCEPT ![job_id].done = TRUE ]

\* the body of `for job in jobs_to_track` for one job: the registry it leaves and the
\* exception that escapes it ("" if none)
track(registry, yarn, job) ==
    IF job.application_id = NoApplication THEN [ registry |-> registry, raised |-> "" ]
    ELSE LET report == yarn[job.application_id]
         IN IF report.kind = "failing"
            THEN [ registry |-> registry, raised |-> "CalledProcessError" ]
            ELSE IF report.kind = "unknown"
            THEN [ registry |-> mark_done(registry, job.job_id), raised |-> "" ]
            ELSE LET new_status == _to_openeo_status(report.state, report.final_state)
                     updated == IF job.status # new_status
                                THEN update(registry, job.job_id, new_status)
                                ELSE registry
                 IN [ registry |-> IF report.final_state # "UNDEFINED"
                                   THEN mark_done(updated, job.job_id)
                                   ELSE updated,
                      raised |-> "" ]

TrackerAt(pc) == call.op = "update_statuses" /\ call.pc = pc

TrackerIdle ==
    /\ cube = {}
    /\ visitor = NoVisitor
    /\ outcome = NoOutcome
    /\ result = {}
    /\ level = {}
    /\ mode = NoMode

\* the head of `while True`: the ticket refresh on every RefreshEvery-th iteration, then
\* the running jobs are fetched
StartIteration(refreshed, jobs_to_track) ==
    /\ TrackerAt("while")
    /\ IF call.i % RefreshEvery = 0 /\ ~refreshed
       THEN /\ failure' = "CalledProcessError"
            /\ pending' = <<>>
            /\ call' = [ call EXCEPT !.pc = "sleep" ]
       ELSE /\ failure' = ""
            /\ pending' = jobs_to_track
            /\ call' = [ call EXCEPT !.pc = IF jobs_to_track = <<>> THEN "sleep" ELSE "for" ]
    /\ UNCHANGED <<cube, visitor, outcome, result, level, mode, out, invocations>>

\* one pass of the for loop; an exception other than the unknown application id one
\* leaves the loop and is printed by the handler of the iteration
TrackJob ==
    /\ TrackerAt("for")
    /\ LET t == track(out, invocations, Head(pending))
       IN /\ out' = t.registry
          /\ failure' = t.raised
          /\ pending' = IF t.raised # "" THEN <<>> ELSE Tail(pending)
          /\ call' = [ call EXCEPT !.pc = IF t.raised # "" \/ Tail(pending) = <<>>
                                          THEN "sleep" ELSE "for" ]
    /\ UNCHANGED <<cube, visitor, outcome, result, level, mode, invocations>>

\* time.sleep(self._track_interval); i += 1
Sleep ==
    /\ TrackerAt("sleep")
    /\ call' = [ call EXCEPT !.pc = "while", !.i = (@ + 1) % RefreshEvery ]
    /\ UNCHANGED <<cube, visitor, outcome, result, level, mode, pending, out, invocations,
                   failure>>

\* an application moves on in YARN: accepted, running, then one of the final states
YarnProgress(application_id, final) ==
    /\ invocations[application_id].kind = "report"
    /\ invocations[application_id].final_state = "UNDEFINED"
    /\ invocations' =
          [ invocations EXCEPT ![application_id] =
              IF @.state = "ACCEPTED" THEN YarnReport("RUNNING", "UNDEFINED") ELSE final ]
    /\ UNCHANGED <<cube, visitor, call, outcome, result, level, mode, pending, out, failure>>

InitTracker ==
    /\ TrackerIdle
    /\ call = [ op |-> "update_statuses", pc |-> "while", i |-> 0 ]
    /\ pending = <<>>
    /\ out \in [ JobIds -> JobInfos ]
    /\ \A j \in JobIds :
          \/ out[j].application_id = NoApplication /\ out[j].status = "created"
          \/ out[j].application_id = j /\ out[j].status \in {"queued", "running"}
    /\ invocations \in [ JobIds -> YarnReports ]
    /\ failure = ""

TrackerStep ==
    \/ \E refreshed \in BOOLEAN : \E jobs_to_track \in get_running_jobs(out) :
          StartIteration(refreshed, jobs_to_track)
    \/ TrackJob
    \/ Sleep

NextTracker ==
    \/ \E refreshed \in BOOLEAN : \E jobs_to_track \in get_running_jobs(out) :
          StartIteration(refreshed, jobs_to_track)
    \/ TrackJob
    \/ Sleep
    \/ \E application_id \in JobIds :
          \E final \in { r \in YarnReports : r.kind = "report" /\ r.final_state # "UNDEFINED" } :
             YarnProgress(application_id, final)

\* the tracker is one sequential thread that the scheduler keeps running
SpecTracker == InitTracker /\ [][NextTracker]_vars /\ WF_vars(TrackerStep)

------------------------------------------------------------------------------
\* Properties of the tracking loop

\* the job is running, has an application id, and YARN reports a defined final state
\* for it or does not know it
Finalizable(j) ==
    /\ ~out[j].done
    /\ out[j].application_id # NoApplication
    /\ \/ invocations[out[j].application_id].kind = "unknown"
       \/ /\ invocations[out[j].application_id].kind = "report"
          /\ invocations[out[j].application_id].final_state # "UNDEFINED"

\* the job is marked done, with the final state mapped to its status if YARN knows it
DoneWithMappedStatus(j) ==
    /\ out[j].done
    /\ LET report == invocations[out[j].application_id]
       IN /\ report.final_state = "KILLED" => out[j].status = "canceled"
          /\ report.final_state = "SUCCEEDED" => out[j].status = "finished"
          /\ report.final_state = "FAILED" => out[j].status = "error"

\* C30: under a fair scheduler every running job with an application id whose YARN final
\* state is defined, or whose application id YARN does not know, is eventually marked
\* done with its status mapped KILLED->canceled, SUCCEEDED->finished, FAILED->error, even
\* when the lookup of another tracked job keeps failing; and the loop keeps iterating.
C30_FinalJobsEventuallyDone ==
    /\ \A j \in JobIds : Finalizable(j) ~> DoneWithMappedStatus(j)
    /\ []<>TrackerAt("sleep")

\* no lookup of a tracked job fails
NoFailingLookup ==
    \A j \in JobIds :
        (~out[j].done /\ out[j].application_id # NoApplication)
            => invocations[out[j].application_id].kind # "failing"

\* what holds of the loop: when no lookup of a tracked job fails, every job that can be
\* finalized is eventually marked done with its status mapped
C30_DoneWhenNoLookupFails ==
    \A j \in JobIds : (Finalizable(j) /\ NoFailingLookup) ~> DoneWithMappedStatus(j)

\* an error in an iteration never ends the loop: it always comes back to its sleep
C30_LoopKeepsIterating == []<>TrackerAt("sleep")

\* an iteration was cut short by the failing lookup of one job while another job that
\* can be finalized was still to be visited
C30_StarvedWitness ==
    /\ TrackerAt("sleep")
    /\ failure = "CalledProcessError"
    /\ \E j \in JobIds : Finalizable(j)
    /\ \E j \in JobIds : ~out[j].done /\ out[j].application_id # NoApplication
                            /\ invocations[j].kind = "failing"

====
